---- MODULE Spec2Model ----
(***************************************************************************)
(* Verification model of the construction dashboard: the budget data       *)
(* normalizer (dataNormalizer: column detection, grouping, totals, top-N,  *)
(* red-flag rules), the useProjectData hook and the dashboard components.  *)
(*                                                                         *)
(* Representation of JavaScript values:                                    *)
(*   - a string is a sequence of one-character strings, so that regular    *)
(*     expressions, toLowerCase and parseFloat work on its characters;     *)
(*   - a cell value is a record [t, s, n]: t = "str" (s holds the text),   *)
(*     t = "num" (n holds the number) or t = "undef";                      *)
(*   - amounts are whole numbers; a percentage is held in hundredths of a  *)
(*     percent (12.34 % is 1234), the precision toFixed(2) keeps;          *)
(*   - a point in time is a number of hours since the epoch.               *)
(***************************************************************************)
EXTENDS Integers, Sequences, FiniteSets, TLC

VARIABLES
  pc,                 \* position of the run under way
  header,             \* the keys every parsed row has, in file order
  rawBudgetData,      \* the parsed rows handed to the normalizer
  projectMeta,        \* the project metadata handed to the normalizer
  clock,              \* the time of the call: new Date() and its locale date
  columnMap,          \* detectAndMapColumns' return value
  groupedByDivision,  \* normalizeBudgetData's division groups (row indices)
  groupedByCostType,  \* normalizeBudgetData's cost-type groups (row indices)
  result,             \* normalizeBudgetData's return value
  console,            \* what console.error has logged
  threw,              \* normalizeBudgetData's catch block ran
  budgetData,         \* processTopBudgetItems' return value
  keyFindings,        \* identifyProjectRedFlags' return value
  env,                \* the component tree: its root, the props, the file, the globals
  hook,               \* the useProjectData instance of ConfigurableConstructionDashboard
  dash,               \* the ConstructionDashboard instance
  promise             \* the promise of the last transformBudgetCSV call

normVars == <<header, rawBudgetData, projectMeta, clock, columnMap, groupedByDivision,
              groupedByCostType, result, console, threw, budgetData, keyFindings>>

hookState == <<env, hook, dash, promise>>

vars == <<pc, normVars, hookState>>

(***************************************************************************)
(* Values                                                                  *)
(***************************************************************************)
Str(s) == [t |-> "str", s |-> s, n |-> 0]
Num(n) == [t |-> "num", s |-> <<>>, n |-> n]
Undef == [t |-> "undef", s |-> <<>>, n |-> 0]

\* An object row: its keys in insertion order (Object.keys) and their values;
\* null |-> TRUE is the value null.
Row(keys, cells) == [null |-> FALSE, keys |-> keys, cells |-> cells]
NullRow == [null |-> TRUE, keys |-> <<>>, cells |-> <<>>]

\* row[key]: undefined for a key the row does not have.
Get(row, key) ==
  IF \E i \in 1..Len(row.keys) : row.keys[i] = key
  THEN row.cells[CHOOSE i \in 1..Len(row.keys) : row.keys[i] = key]
  ELSE Undef

\* String.prototype.toLowerCase on the characters the headers use.
LowerChar(c) ==
  CASE c = "A" -> "a" [] c = "B" -> "b" [] c = "C" -> "c" [] c = "D" -> "d"
    [] c = "E" -> "e" [] c = "F" -> "f" [] c = "G" -> "g" [] c = "H" -> "h"
    [] c = "I" -> "i" [] c = "J" -> "j" [] c = "K" -> "k" [] c = "L" -> "l"
    [] c = "M" -> "m" [] c = "N" -> "n" [] c = "O" -> "o" [] c = "P" -> "p"
    [] c = "Q" -> "q" [] c = "R" -> "r" [] c = "S" -> "s" [] c = "T" -> "t"
    [] c = "U" -> "u" [] c = "V" -> "v" [] c = "W" -> "w" [] c = "X" -> "x"
    [] c = "Y" -> "y" [] c = "Z" -> "z" [] OTHER -> c

toLowerCase(s) == [i \in 1..Len(s) |-> LowerChar(s[i])]

\* body(value): a value that is computed once and used under a name.
Bind(value, body(_)) == body(value)

(***************************************************************************)
(* Regular expressions.  A pattern is a set of alternatives, an            *)
(* alternative a sequence of atoms, an atom a character class repeated     *)
(* lo..hi times (hi = -1: unbounded).  Classes: one character, "ANY" (.),  *)
(* "SPACE" (\s), "DIGIT" (\d).                                             *)
(***************************************************************************)
Digits == {"0", "1", "2", "3", "4", "5", "6", "7", "8", "9"}

ClassHas(cls, c) ==
  CASE cls = "ANY" -> TRUE
    [] cls = "SPACE" -> c = " "
    [] cls = "DIGIT" -> c \in Digits
    [] OTHER -> c = cls

Atom(cls, lo, hi) == [c |-> cls, lo |-> lo, hi |-> hi]
Lit(s) == [i \in 1..Len(s) |-> Atom(s[i], 1, 1)]

\* The number of characters of s from position i on that lie in cls, at most hi.
RECURSIVE Run(_, _, _, _)
Run(cls, hi, s, i) ==
  IF hi = 0 \/ i > Len(s) \/ ~ClassHas(cls, s[i]) THEN 0
  ELSE 1 + Run(cls, IF hi < 0 THEN hi ELSE hi - 1, s, i + 1)

\* The positions at which a match of alt[k..] that starts at position i can end.
RECURSIVE Ends(_, _, _, _)
Ends(alt, k, s, i) ==
  IF k > Len(alt) THEN {i}
  ELSE LET a == alt[k]
           most == Run(a.c, a.hi, s, i)
       IN  UNION {Ends(alt, k + 1, s, i + n) : n \in a.lo..most}

\* RegExp.prototype.test: the pattern matches somewhere in s.
Test(pattern, s) ==
  \E alt \in pattern : \E i \in 1..(Len(s) + 1) : Ends(alt, 1, s, i) # {}

\* costCode.match(/^(\d+)/): the captured leading digits, <<>> when there is no
\* match (the quantifier is greedy).
LeadingDigits(s) == SubSeq(s, 1, Run("DIGIT", -1, s, 1))

(***************************************************************************)
(* detectAndMapColumns                                                     *)
(***************************************************************************)
OptAny == <<Atom("ANY", 0, 1)>>
Any13 == <<Atom("ANY", 1, 3)>>
AnyStar == <<Atom("ANY", 0, -1)>>
SpaceStar == <<Atom("SPACE", 0, -1)>>

wCode == <<"c","o","d","e">>
wCost == <<"c","o","s","t">>
wBudget == <<"b","u","d","g","e","t">>
wBilled == <<"b","i","l","l","e","d">>
wCurrent == <<"c","u","r","r","e","n","t">>
wType == <<"t","y","p","e">>
wTotal == <<"t","o","t","a","l">>
wProj == <<"p","r","o","j">>
wComplet == <<"c","o","m","p","l","e","t">>
wForecast == <<"f","o","r","e","c","a","s","t">>
wUnder == <<"u","n","d","e","r">>
wVariance == <<"v","a","r","i","a","n","c","e">>

\* The patterns of the if/else chain, in its order.
DetectPatterns == <<
  (* /cost.?code|budget.?code/ *)
  {Lit(wCost) \o OptAny \o Lit(wCode), Lit(wBudget) \o OptAny \o Lit(wCode)},
  (* /description|desc\.?/ *)
  {Lit(<<"d","e","s","c","r","i","p","t","i","o","n">>),
   Lit(<<"d","e","s","c">>) \o <<Atom(".", 0, 1)>>},
  (* /cost.?type|type/ *)
  {Lit(wCost) \o OptAny \o Lit(wType), Lit(wType)},
  (* /current.?contract.?budget|current.?budget|e.{1,3}current/ *)
  {Lit(wCurrent) \o OptAny \o Lit(<<"c","o","n","t","r","a","c","t">>) \o OptAny \o Lit(wBudget),
   Lit(wCurrent) \o OptAny \o Lit(wBudget),
   Lit(<<"e">>) \o Any13 \o Lit(wCurrent)},
  (* /total.?billed|billed.?to.?date|j.{1,3}total.?billed/ *)
  {Lit(wTotal) \o OptAny \o Lit(wBilled),
   Lit(wBilled) \o OptAny \o Lit(<<"t","o">>) \o OptAny \o Lit(<<"d","a","t","e">>),
   Lit(<<"j">>) \o Any13 \o Lit(wTotal) \o OptAny \o Lit(wBilled)},
  (* /\%\s*billed|billed\s*\%/ *)
  {Lit(<<"%">>) \o SpaceStar \o Lit(wBilled), Lit(wBilled) \o SpaceStar \o Lit(<<"%">>)},
  (* /proj.*cost.*complet|forecast.*complet|q.{1,3}proj/ *)
  {Lit(wProj) \o AnyStar \o Lit(wCost) \o AnyStar \o Lit(wComplet),
   Lit(wForecast) \o AnyStar \o Lit(wComplet),
   Lit(<<"q">>) \o Any13 \o Lit(wProj)},
  (* /\(over\)|under|variance|g.*q/ *)
  {Lit(<<"(","o","v","e","r",")">>), Lit(wUnder), Lit(wVariance),
   Lit(<<"g">>) \o AnyStar \o Lit(<<"q">>)} >>

\* The patterns of inferColumnMappings, all case-insensitive, in field order.
InferPatterns == <<
  (* /code/i *) {Lit(wCode)},
  (* /descr/i *) {Lit(<<"d","e","s","c","r">>)},
  (* /type/i *) {Lit(wType)},
  (* /budget/i *) {Lit(wBudget)},
  (* /billed/i *) {Lit(wBilled)},
  (* /\%.*billed/i *) {Lit(<<"%">>) \o AnyStar \o Lit(wBilled)},
  (* /projected|forecast/i *) {Lit(wProj \o <<"e","c","t","e","d">>), Lit(wForecast)},
  (* /variance|over|under/i *) {Lit(wVariance), Lit(<<"o","v","e","r">>), Lit(wUnder)} >>

\* The fields of the column map, in the order of the if/else chain.
Fields == <<"costCode", "costCodeDescription", "costType", "currentBudget",
            "billedToDate", "percentBilled", "projectedCost", "variance">>

hBudgetCode == <<"B","u","d","g","e","t"," ","C","o","d","e">>
hDescription == <<"B","u","d","g","e","t"," ","C","o","d","e"," ","D","e","s","c","r","i","p","t","i","o","n">>
hCostType == <<"C","o","s","t"," ","T","y","p","e">>
hCurrentBudget == <<"E"," ","-"," ","C","u","r","r","e","n","t"," ","C","o","n","t","r","a","c","t"," ","B","u","d","g","e","t">>
hTotalBilled == <<"J"," ","-"," ","T","o","t","a","l"," ","B","i","l","l","e","d"," ","t","o"," ","D","a","t","e">>
hPercentBilled == <<"%"," ","B","i","l","l","e","d"," ","t","o"," ","D","a","t","e">>
hProjCost == <<"Q"," ","-"," ","P","r","o","j"," ","C","o","s","t"," ","@"," ","C","o","m","p","l","e","t","e"," ","(","J","+","P",")">>
hOverUnder == <<"(","O","v","e","r",")"," ","/"," ","U","n","d","e","r"," ","B","u","d","g","e","t"," ","(","G","-","Q",")">>

\* The eight standard headers: the defaults of inferColumnMappings, in the order
\* its fields list them.
StandardHeaders == <<hBudgetCode, hDescription, hCostType, hCurrentBudget,
                     hTotalBilled, hPercentBilled, hProjCost, hOverUnder>>

HeaderSet == {StandardHeaders[i] : i \in 1..Len(StandardHeaders)}

\* regex.test(key) for the headers of the model, evaluated once per header.
DetectTable == [k \in HeaderSet |-> [p \in 1..Len(DetectPatterns) |-> Test(DetectPatterns[p], toLowerCase(k))]]
InferTable == [k \in HeaderSet |-> [p \in 1..Len(InferPatterns) |-> Test(InferPatterns[p], toLowerCase(k))]]

DetectTest(p, key) ==
  IF key \in HeaderSet THEN DetectTable[key][p] ELSE Test(DetectPatterns[p], toLowerCase(key))
InferTest(p, key) ==
  IF key \in HeaderSet THEN InferTable[key][p] ELSE Test(InferPatterns[p], toLowerCase(key))

\* The branch of the if/else chain a key takes: the first pattern that matches,
\* 0 when none does.
FirstMatch(key) ==
  IF \E p \in 1..Len(DetectPatterns) : DetectTest(p, key)
  THEN CHOOSE p \in 1..Len(DetectPatterns) :
         DetectTest(p, key) /\ \A q \in 1..(p - 1) : ~DetectTest(q, key)
  ELSE 0

BranchTable == [k \in HeaderSet |-> FirstMatch(k)]

Branch(key) == IF key \in HeaderSet THEN BranchTable[key] ELSE FirstMatch(key)

\* The for loop over the keys: each key overwrites the field of its branch, so
\* a field ends with the last key that took its branch ("" when none did).
LoopMap(keys) ==
  Bind([i \in 1..Len(keys) |-> Branch(keys[i])], LAMBDA taken :
    [p \in 1..Len(Fields) |->
       IF \E i \in 1..Len(keys) : taken[i] = p
       THEN keys[CHOOSE i \in 1..Len(keys) :
                   taken[i] = p /\ \A j \in (i + 1)..Len(keys) : taken[j] # p]
       ELSE <<>>])

\* keys.find(k => regex.test(k)) || default
inferColumnMappings(keys) ==
  [p \in 1..Len(Fields) |->
     IF \E i \in 1..Len(keys) : InferTest(p, keys[i])
     THEN keys[CHOOSE i \in 1..Len(keys) :
                 InferTest(p, keys[i]) /\ \A j \in 1..(i - 1) : ~InferTest(p, keys[j])]
     ELSE StandardHeaders[p]]

\* { ...fallbackMappings, ..._.pickBy(map, value => value !== '') }, as a record
\* over Fields.
detectAndMapColumns(sampleRow) ==
  Bind(LoopMap(sampleRow.keys), LAMBDA map :
  Bind(inferColumnMappings(sampleRow.keys), LAMBDA fallbackMappings :
  Bind([p \in 1..Len(Fields) |-> IF map[p] # <<>> THEN map[p] ELSE fallbackMappings[p]],
       LAMBDA merged :
    [costCode |-> merged[1], costCodeDescription |-> merged[2], costType |-> merged[3],
     currentBudget |-> merged[4], billedToDate |-> merged[5], percentBilled |-> merged[6],
     projectedCost |-> merged[7], variance |-> merged[8]])))

NoMap == [costCode |-> <<>>, costCodeDescription |-> <<>>, costType |-> <<>>,
          currentBudget |-> <<>>, billedToDate |-> <<>>, percentBilled |-> <<>>,
          projectedCost |-> <<>>, variance |-> <<>>]

(***************************************************************************)
(* Numbers and their conversions                                           *)
(***************************************************************************)
DigitVal(c) ==
  CASE c = "0" -> 0 [] c = "1" -> 1 [] c = "2" -> 2 [] c = "3" -> 3 [] c = "4" -> 4
    [] c = "5" -> 5 [] c = "6" -> 6 [] c = "7" -> 7 [] c = "8" -> 8 [] c = "9" -> 9

DigitChar(d) ==
  CASE d = 0 -> "0" [] d = 1 -> "1" [] d = 2 -> "2" [] d = 3 -> "3" [] d = 4 -> "4"
    [] d = 5 -> "5" [] d = 6 -> "6" [] d = 7 -> "7" [] d = 8 -> "8" [] d = 9 -> "9"

\* The value of a sequence of decimal digits.
RECURSIVE DigitsValue(_)
DigitsValue(ds) ==
  IF ds = <<>> THEN 0
  ELSE 10 * DigitsValue(SubSeq(ds, 1, Len(ds) - 1)) + DigitVal(ds[Len(ds)])

\* The decimal digits of n >= 0.
RECURSIVE DigitsOf(_)
DigitsOf(n) == IF n < 10 THEN <<DigitChar(n)>> ELSE Append(DigitsOf(n \div 10), DigitChar(n % 10))

\* String(n) of a whole number.
NumberToString(n) == IF n < 0 THEN <<"-">> \o DigitsOf(-n) ELSE DigitsOf(n)

\* parseFloat of a cell: [nan |-> TRUE] when it yields NaN.  A number is itself;
\* of a string the leading whole number is read (optional blanks and sign, then
\* digits: the amounts of the model have no fraction); anything else is NaN.
parseFloat(cell) ==
  IF cell.t = "num" THEN [nan |-> FALSE, v |-> cell.n]
  ELSE IF cell.t = "str"
  THEN Bind(Run("SPACE", -1, cell.s, 1), LAMBDA blanks :
       Bind(blanks < Len(cell.s) /\ cell.s[blanks + 1] \in {"-", "+"}, LAMBDA signed :
       Bind(blanks + (IF signed THEN 2 ELSE 1), LAMBDA first :
       Bind(Run("DIGIT", -1, cell.s, first), LAMBDA count :
       Bind(DigitsValue(SubSeq(cell.s, first, first + count - 1)), LAMBDA magnitude :
         IF count = 0 THEN [nan |-> TRUE, v |-> 0]
         ELSE [nan |-> FALSE,
               v |-> IF signed /\ cell.s[blanks + 1] = "-" THEN -magnitude ELSE magnitude])))))
  ELSE [nan |-> TRUE, v |-> 0]

\* parseFloat(cell) || other : NaN and 0 are falsy.
parseFloatOr(cell, other) ==
  Bind(parseFloat(cell), LAMBDA f : IF f.nan \/ f.v = 0 THEN other ELSE f.v)

\* value || other, on cells: undefined, "" and 0 are falsy.
Truthy(cell) ==
  \/ cell.t = "str" /\ cell.s # <<>>
  \/ cell.t = "num" /\ cell.n # 0
OrElse(cell, other) == IF Truthy(cell) THEN cell ELSE other

\* Math.ceil(a / b) for b > 0.
CeilDiv(a, b) == -((-a) \div b)

\* The whole number nearest to a / b for b > 0, halves away from zero: what
\* toFixed keeps, in units of its last digit.
RoundDiv(a, b) ==
  IF a >= 0 THEN (2 * a + b) \div (2 * b) ELSE -((2 * (-a) + b) \div (2 * b))

\* The digits of n >= 0 with a comma before each group of three.
RECURSIVE Grouped(_)
Grouped(n) ==
  IF n < 1000 THEN DigitsOf(n)
  ELSE LET r == n % 1000
       IN  Grouped(n \div 1000) \o <<",", DigitChar(r \div 100), DigitChar((r \div 10) % 10), DigitChar(r % 10)>>

\* Intl.NumberFormat('en-US', {style: 'currency', currency: 'USD', no fraction
\* digits}).format(value), for a whole value.
formatCurrency(value) ==
  IF value < 0 THEN <<"-", "$">> \o Grouped(-value) ELSE <<"$">> \o Grouped(value)

(***************************************************************************)
(* Dates.  An ISO date "YYYY-MM-DD" parses to midnight UTC of that day.    *)
(***************************************************************************)
HoursPerDay == 24

DaysFromCivil(y, m, d) ==
  LET yy == IF m <= 2 THEN y - 1 ELSE y
      era == yy \div 400
      yoe == yy - era * 400
      mp == IF m > 2 THEN m - 3 ELSE m + 9
      doy == (153 * mp + 2) \div 5 + d - 1
      doe == yoe * 365 + yoe \div 4 - yoe \div 100 + doy
  IN  era * 146097 + doe - 719468

\* new Date(s) for an ISO date, in hours since the epoch.
ParseDate(s) ==
  DaysFromCivil(DigitsValue(SubSeq(s, 1, 4)), DigitsValue(SubSeq(s, 6, 7)),
                DigitsValue(SubSeq(s, 9, 10))) * HoursPerDay

(***************************************************************************)
(* sumField, _.groupBy, _.sortBy                                           *)
(***************************************************************************)
\* A reduce that keeps the last value in place of the sum.
sumFieldLast(items, fieldName) ==
  IF items = <<>> THEN 0
  ELSE parseFloatOr(Get(items[Len(items)], fieldName), 0)

\* items.reduce((sum, item) => sum + (parseFloat(item[fieldName]) || 0), 0)
RECURSIVE sumField(_, _)
sumField(items, fieldName) ==
  IF items = <<>> THEN 0
  ELSE sumField(SubSeq(items, 1, Len(items) - 1), fieldName)
       + parseFloatOr(Get(items[Len(items)], fieldName), 0)

\* A grouping that starts a group anew at each element (result[key] = [value]
\* where the element should be pushed).
RECURSIVE groupByOverwriting(_)
groupByOverwriting(groupKeys) ==
  IF groupKeys = <<>> THEN <<>>
  ELSE LET n == Len(groupKeys)
           before == groupByOverwriting(SubSeq(groupKeys, 1, n - 1))
       IN  IF \E g \in 1..Len(before) : before[g].key = groupKeys[n]
           THEN [g \in 1..Len(before) |->
                   IF before[g].key = groupKeys[n]
                   THEN [key |-> before[g].key, items |-> <<n>>]
                   ELSE before[g]]
           ELSE Append(before, [key |-> groupKeys[n], items |-> <<n>>])

\* _.groupBy over the keys the iteratee gave, one per element: the groups in the
\* order their keys first occur, each the indices of its elements in order.
RECURSIVE groupBy(_)
groupBy(groupKeys) ==
  IF groupKeys = <<>> THEN <<>>
  ELSE LET n == Len(groupKeys)
           before == groupBy(SubSeq(groupKeys, 1, n - 1))
       IN  IF \E g \in 1..Len(before) : before[g].key = groupKeys[n]
           THEN [g \in 1..Len(before) |->
                   IF before[g].key = groupKeys[n]
                   THEN [key |-> before[g].key, items |-> Append(before[g].items, n)]
                   ELSE before[g]]
           ELSE Append(before, [key |-> groupKeys[n], items |-> <<n>>])

\* The elements of a collection at the given indices.
Pick(collection, indices) == [i \in 1..Len(indices) |-> collection[indices[i]]]

\* A sort that puts an element before the elements of equal key: not stable.
RECURSIVE sortByUnstable(_)
sortByUnstable(sortKeys) ==
  IF sortKeys = <<>> THEN <<>>
  ELSE LET n == Len(sortKeys)
           before == sortByUnstable(SubSeq(sortKeys, 1, n - 1))
           pos == Cardinality({i \in 1..Len(before) : sortKeys[before[i]] < sortKeys[n]})
       IN  SubSeq(before, 1, pos) \o <<n>> \o SubSeq(before, pos + 1, Len(before))

\* _.sortBy over the sort keys, one per element: the indices of the elements in
\* ascending key order, equal keys in their original order (the sort is stable).
RECURSIVE sortBy(_)
sortBy(sortKeys) ==
  IF sortKeys = <<>> THEN <<>>
  ELSE LET n == Len(sortKeys)
           before == sortBy(SubSeq(sortKeys, 1, n - 1))
           pos == Cardinality({i \in 1..Len(before) : sortKeys[before[i]] <= sortKeys[n]})
       IN  SubSeq(before, 1, pos) \o <<n>> \o SubSeq(before, pos + 1, Len(before))

(***************************************************************************)
(* normalizeBudgetData and its helpers                                     *)
(***************************************************************************)
sOther == <<"O","t","h","e","r">>
sDiv == <<"D","i","v"," ">>
sUnnamedItem == <<"U","n","n","a","m","e","d"," ","I","t","e","m">>
sConstructionProject == <<"C","o","n","s","t","r","u","c","t","i","o","n"," ","P","r","o","j","e","c","t">>
sMonths == <<" ","m","o","n","t","h","s">>
sTimeElapsed == <<"T","i","m","e"," ","E","l","a","p","s","e","d">>
sTimeRemaining == <<"T","i","m","e"," ","R","e","m","a","i","n","i","n","g">>
sBudgetSpent == <<"B","u","d","g","e","t"," ","S","p","e","n","t">>
sBudgetRemaining == <<"B","u","d","g","e","t"," ","R","e","m","a","i","n","i","n","g">>
sLabor == <<"L","a","b","o","r"," ","(","L",")">>
sMaterials == <<"M","a","t","e","r","i","a","l","s"," ","(","M",")">>
sSubcontracts == <<"S","u","b","c","o","n","t","r","a","c","t","s"," ","(","S",")">>
sOtherO == <<"O","t","h","e","r"," ","(","O",")">>

\* A property key: String(value).
KeyString(cell) == IF cell.t = "num" THEN NumberToString(cell.n) ELSE cell.s

\* costTypeMap[costType] || costType
costTypeMap(costType) ==
  CASE costType = <<"L">> -> sLabor
    [] costType = <<"M">> -> sMaterials
    [] costType = <<"S">> -> sSubcontracts
    [] costType = <<"O">> -> sOtherO
    [] costType = <<"L","A","B","O","R">> -> sLabor
    [] costType = <<"M","A","T","E","R","I","A","L">> -> sMaterials
    [] costType = <<"S","U","B","C","O","N","T","R","A","C","T">> -> sSubcontracts
    [] costType = <<"O","T","H","E","R">> -> sOtherO
    [] OTHER -> costType

\* divisionNames[division] || division
divisionNames(division) ==
  CASE division = <<"D","i","v"," ","1">> -> <<"D","i","v"," ","1"," ","-"," ","G","e","n","e","r","a","l">>
    [] division = <<"D","i","v"," ","2">> -> <<"D","i","v"," ","2"," ","-"," ","S","i","t","e"," ","W","o","r","k">>
    [] division = <<"D","i","v"," ","3">> -> <<"D","i","v"," ","3"," ","-"," ","C","o","n","c","r","e","t","e">>
    [] division = <<"D","i","v"," ","4">> -> <<"D","i","v"," ","4"," ","-"," ","M","a","s","o","n","r","y">>
    [] division = <<"D","i","v"," ","5">> -> <<"D","i","v"," ","5"," ","-"," ","M","e","t","a","l","s">>
    [] division = <<"D","i","v"," ","6">> -> <<"D","i","v"," ","6"," ","-"," ","W","o","o","d","/","P","l","a","s","t","i","c","s">>
    [] division = <<"D","i","v"," ","7">> -> <<"D","i","v"," ","7"," ","-"," ","T","h","e","r","m","a","l","/","M","o","i","s","t","u","r","e">>
    [] division = <<"D","i","v"," ","8">> -> <<"D","i","v"," ","8"," ","-"," ","D","o","o","r","s","/","W","i","n","d","o","w","s">>
    [] division = <<"D","i","v"," ","9">> -> <<"D","i","v"," ","9"," ","-"," ","F","i","n","i","s","h","e","s">>
    [] division = <<"D","i","v"," ","1","0">> -> <<"D","i","v"," ","1","0"," ","-"," ","S","p","e","c","i","a","l","t","i","e","s">>
    [] division = <<"D","i","v"," ","1","1">> -> <<"D","i","v"," ","1","1"," ","-"," ","E","q","u","i","p","m","e","n","t">>
    [] division = <<"D","i","v"," ","1","2">> -> <<"D","i","v"," ","1","2"," ","-"," ","F","u","r","n","i","s","h","i","n","g","s">>
    [] division = <<"D","i","v"," ","1","3">> -> <<"D","i","v"," ","1","3"," ","-"," ","S","p","e","c","i","a","l"," ","C","o","n","s","t","r","u","c","t","i","o","n">>
    [] division = <<"D","i","v"," ","1","4">> -> <<"D","i","v"," ","1","4"," ","-"," ","C","o","n","v","e","y","i","n","g"," ","S","y","s","t","e","m","s">>
    [] division = <<"D","i","v"," ","1","5">> -> <<"D","i","v"," ","1","5"," ","-"," ","M","e","c","h","a","n","i","c","a","l","/","P","l","u","m","b","i","n","g">>
    [] division = <<"D","i","v"," ","1","6">> -> <<"D","i","v"," ","1","6"," ","-"," ","E","l","e","c","t","r","i","c","a","l">>
    [] division = <<"D","i","v"," ","1","7">> -> <<"D","i","v"," ","1","7"," ","-"," ","C","o","m","m","u","n","i","c","a","t","i","o","n","s">>
    [] division = <<"D","i","v"," ","1","8">> -> <<"D","i","v"," ","1","8"," ","-"," ","B","u","i","l","d","e","r","'","s"," ","C","o","n","t","i","n","g","e","n","c","y">>
    [] division = <<"D","i","v"," ","1","9">> -> <<"D","i","v"," ","1","9"," ","-"," ","P","r","o","j","e","c","t"," ","R","e","q","m","t","s">>
    [] division = <<"D","i","v"," ","2","0">> -> <<"D","i","v"," ","2","0"," ","-"," ","B","u","i","l","d","e","r","'","s"," ","F","e","e">>
    [] division = <<"D","i","v"," ","2","1">> -> <<"D","i","v"," ","2","1"," ","-"," ","F","i","r","e"," ","S","u","p","p","r","e","s","s","i","o","n">>
    [] division = <<"D","i","v"," ","2","2">> -> <<"D","i","v"," ","2","2"," ","-"," ","P","l","u","m","b","i","n","g">>
    [] division = <<"D","i","v"," ","2","3">> -> <<"D","i","v"," ","2","3"," ","-"," ","H","V","A","C">>
    [] division = <<"D","i","v"," ","2","6">> -> <<"D","i","v"," ","2","6"," ","-"," ","E","l","e","c","t","r","i","c","a","l">>
    [] division = <<"D","i","v"," ","2","7">> -> <<"D","i","v"," ","2","7"," ","-"," ","C","o","m","m","u","n","i","c","a","t","i","o","n","s">>
    [] division = <<"D","i","v"," ","2","8">> -> <<"D","i","v"," ","2","8"," ","-"," ","E","l","e","c","t","r","o","n","i","c"," ","S","a","f","e","t","y">>
    [] OTHER -> division

\* The entries the loop of processCostTypeData pushes for the first n groups
\* (Object.entries of the groups; their keys are no array indices, so they come
\* in insertion order).  groups: the groups of groupBy with their rows.
RECURSIVE CostTypeEntries(_, _, _, _)
CostTypeEntries(groups, n, colMap, expectedComplete) ==
  IF n = 0 THEN <<>>
  ELSE Bind(sumField(groups[n].items, colMap.currentBudget), LAMBDA totalBudget :
       Bind(sumField(groups[n].items, colMap.billedToDate), LAMBDA totalBilled :
         LET before == CostTypeEntries(groups, n - 1, colMap, expectedComplete)
             normalizedType == costTypeMap(groups[n].key)
         IN  IF totalBudget > 0
             THEN Append(before,
                    [name |-> normalizedType,
                     complete |-> RoundDiv(totalBilled * 10000, totalBudget),
                     remaining |-> RoundDiv((totalBudget - totalBilled) * 10000, totalBudget),
                     expectedComplete |-> expectedComplete])
             ELSE before))

processCostTypeData(byCostType, colMap, expectedComplete) ==
  CostTypeEntries(byCostType, Len(byCostType), colMap, expectedComplete)

RECURSIVE DivisionEntries(_, _, _, _)
DivisionEntries(groups, n, colMap, expectedComplete) ==
  IF n = 0 THEN <<>>
  ELSE Bind(sumField(groups[n].items, colMap.currentBudget), LAMBDA totalBudget :
       Bind(sumField(groups[n].items, colMap.billedToDate), LAMBDA totalBilled :
         LET before == DivisionEntries(groups, n - 1, colMap, expectedComplete)
             divisionName == divisionNames(groups[n].key)
         IN  IF totalBudget > 0
             THEN Append(before,
                    [name |-> divisionName,
                     complete |-> RoundDiv(totalBilled * 10000, totalBudget),
                     expected |-> expectedComplete,
                     variance |-> RoundDiv(totalBilled * 10000 - expectedComplete * totalBudget,
                                           totalBudget)])
             ELSE before))

\* The entries, then _.sortBy(res, item => -item.complete).
processDivisionData(byDivision, colMap, expectedComplete) ==
  Bind(DivisionEntries(byDivision, Len(byDivision), colMap, expectedComplete), LAMBDA entries :
    Pick(entries, sortBy([i \in 1..Len(entries) |-> -entries[i].complete])))

\* The default limit of processTopBudgetItems.
TopLimit == 5

\* The item processTopBudgetItems makes of a row.  percentBilled is the
\* unrounded quotient billed / budget * 100, kept as a fraction.
BudgetItem(row, colMap) ==
  Bind(parseFloatOr(Get(row, colMap.currentBudget), 0), LAMBDA budget :
  Bind(parseFloatOr(Get(row, colMap.billedToDate), 0), LAMBDA billed :
  Bind(parseFloatOr(Get(row, colMap.projectedCost), budget), LAMBDA projected :
    [name |-> OrElse(Get(row, colMap.costCodeDescription), Str(sUnnamedItem)),
     costCode |-> OrElse(Get(row, colMap.costCode), Str(<<>>)),
     budget |-> budget,
     billed |-> billed,
     percentBilled |-> IF budget > 0 THEN [num |-> billed * 100, den |-> budget]
                       ELSE [num |-> 0, den |-> 1],
     projected |-> projected,
     variance |-> budget - projected])))

\* The indices of the rows processTopBudgetItems returns, in its order:
\* _.sortBy(budgetItems, item => -item.budget).slice(0, limit)
TopOrder(rows, colMap, limit) ==
  Bind(sortBy([i \in 1..Len(rows) |-> -BudgetItem(rows[i], colMap).budget]), LAMBDA order :
    SubSeq(order, 1, IF Len(order) < limit THEN Len(order) ELSE limit))

processTopBudgetItems(rows, colMap, limit) ==
  Bind(TopOrder(rows, colMap, limit), LAMBDA order :
    [k \in 1..Len(order) |-> BudgetItem(rows[order[k]], colMap)])

\* A res structure that takes the fields of meta as they are.
EmptyResultNoDefaults(meta, at) ==
  [projectData |->
     [projectName |-> meta.projectName,
      startDate |-> meta.startDate,
      endDate |-> meta.endDate,
      currentDate |-> meta.currentDate,
      daysElapsed |-> 0,
      totalDuration |-> <<>>,
      percentTimeElapsed |-> 0,
      totalBudget |-> Num(0),
      totalBilled |-> Num(0),
      percentBilled |-> 0,
      projectedFinal |-> Num(0),
      projectedOverage |-> Num(0),
      percentOverage |-> 0],
   budgetData |-> <<>>,
   timeData |-> <<>>,
   budgetSpentData |-> <<>>,
   costTypeData |-> <<>>,
   divisionData |-> <<>>]

\* The res structure normalizeBudgetData starts from.
EmptyResult(meta, at) ==
  [projectData |->
     [projectName |-> OrElse(meta.projectName, Str(sConstructionProject)),
      startDate |-> OrElse(meta.startDate, Str(<<>>)),
      endDate |-> OrElse(meta.endDate, Str(<<>>)),
      currentDate |-> OrElse(meta.currentDate, Str(at.localeDate)),
      daysElapsed |-> 0,
      totalDuration |-> <<>>,
      percentTimeElapsed |-> 0,
      totalBudget |-> Num(0),
      totalBilled |-> Num(0),
      percentBilled |-> 0,
      projectedFinal |-> Num(0),
      projectedOverage |-> Num(0),
      percentOverage |-> 0],
   budgetData |-> <<>>,
   timeData |-> <<>>,
   budgetSpentData |-> <<>>,
   costTypeData |-> <<>>,
   divisionData |-> <<>>]

\* The time-related metrics, written into res.projectData when both dates
\* are given.
WithTimeMetrics(res, meta, at) ==
  IF Truthy(meta.startDate) /\ Truthy(meta.endDate)
  THEN Bind(ParseDate(meta.startDate.s), LAMBDA startDate :
       Bind(ParseDate(meta.endDate.s), LAMBDA endDate :
       Bind(IF Truthy(meta.currentDate) THEN ParseDate(meta.currentDate.s) ELSE at.now,
            LAMBDA currentDate :
       Bind(CeilDiv(endDate - startDate, HoursPerDay), LAMBDA totalDays :
       Bind(CeilDiv(currentDate - startDate, HoursPerDay), LAMBDA elapsedDays :
         [res EXCEPT
            !.projectData.daysElapsed = elapsedDays,
            !.projectData.totalDuration = NumberToString(CeilDiv(totalDays * 10, 304)) \o sMonths,
            !.projectData.percentTimeElapsed = RoundDiv(elapsedDays * 10000, totalDays)])))))
  ELSE res

\* The key the division iteratee returns for a row.
DivisionKey(row, colMap) ==
  Bind(LeadingDigits(OrElse(Get(row, colMap.costCode), Str(<<>>)).s), LAMBDA divMatch :
    IF divMatch # <<>> THEN sDiv \o divMatch ELSE sOther)

\* The division iteratee throws a TypeError on a row: a null row has no
\* properties, and only a string has .match.
DivisionKeyThrows(row, colMap) ==
  \/ row.null
  \/ OrElse(Get(row, colMap.costCode), Str(<<>>)).t # "str"

\* The key the cost-type iteratee returns for a row.
CostTypeKey(row, colMap) == KeyString(OrElse(Get(row, colMap.costType), Str(sOther)))

\* The groups of groupBy with the rows in place of their indices.
WithRows(groups, rows) ==
  [g \in 1..Len(groups) |-> [key |-> groups[g].key, items |-> Pick(rows, groups[g].items)]]

\* The catch block: the error is logged and result is returned as it is.
\* colMap: the column map computed before the throw.
Caught(res, colMap) ==
  [result |-> res, console |-> <<"Error normalizing budget data:">>, threw |-> TRUE,
   columnMap |-> colMap, groupedByDivision |-> <<>>, groupedByCostType |-> <<>>]

\* A rawBudgetData argument: an array of rows, or null or undefined.
ArrayOf(rows) == [t |-> "array", v |-> rows]
AbsentData == {[t |-> "null", v |-> <<>>], [t |-> "undefined", v |-> <<>>]}

\* normalizeBudgetData(data, meta) at the time at: what it returns, what it
\* logs, whether the catch block ran, and the column map and groups it
\* computed on the way (groups hold row indices).
normalizeBudgetData(data, meta, at) ==
  IF data.t # "array" \/ Len(data.v) = 0
  THEN [result |-> EmptyResult(meta, at), console |-> <<"No budget data provided">>,
        threw |-> FALSE, columnMap |-> NoMap,
        groupedByDivision |-> <<>>, groupedByCostType |-> <<>>]
  ELSE
  Bind(data.v, LAMBDA rows :
  Bind(WithTimeMetrics(EmptyResult(meta, at), meta, at), LAMBDA timed :
  IF rows[1].null THEN Caught(timed, NoMap)
  ELSE
  Bind(detectAndMapColumns(rows[1]), LAMBDA colMap :
  IF \E i \in 1..Len(rows) : DivisionKeyThrows(rows[i], colMap) THEN Caught(timed, colMap)
  ELSE
  Bind(groupBy([i \in 1..Len(rows) |-> DivisionKey(rows[i], colMap)]), LAMBDA byDivision :
  Bind(groupBy([i \in 1..Len(rows) |-> CostTypeKey(rows[i], colMap)]), LAMBDA byCostType :
  Bind(sumField(rows, colMap.currentBudget), LAMBDA totalBudget :
  Bind(sumField(rows, colMap.billedToDate), LAMBDA totalBilled :
  Bind(sumField(rows, colMap.projectedCost), LAMBDA projectedFinalCost :
  Bind(IF totalBudget > 0 THEN RoundDiv(totalBilled * 10000, totalBudget) ELSE 0,
       LAMBDA percentBilled :
  LET projectedOverage == projectedFinalCost - totalBudget
      percentOverage == IF totalBudget > 0 THEN RoundDiv(projectedOverage * 10000, totalBudget)
                        ELSE 0
      pte == timed.projectData.percentTimeElapsed
  IN  [result |->
         [timed EXCEPT
            !.projectData.totalBudget = Str(formatCurrency(totalBudget)),
            !.projectData.totalBilled = Str(formatCurrency(totalBilled)),
            !.projectData.percentBilled = percentBilled,
            !.projectData.projectedFinal = Str(formatCurrency(projectedFinalCost)),
            !.projectData.projectedOverage = Str(formatCurrency(projectedOverage)),
            !.projectData.percentOverage = percentOverage,
            !.timeData = <<[name |-> sTimeElapsed, value |-> pte],
                           [name |-> sTimeRemaining, value |-> 10000 - pte]>>,
            !.budgetSpentData = <<[name |-> sBudgetSpent, value |-> percentBilled],
                                  [name |-> sBudgetRemaining, value |-> 10000 - percentBilled]>>,
            !.costTypeData = processCostTypeData(WithRows(byCostType, rows), colMap, pte),
            !.divisionData = processDivisionData(WithRows(byDivision, rows), colMap, pte),
            !.budgetData = processTopBudgetItems(rows, colMap, TopLimit)],
       console |-> <<>>, threw |-> FALSE, columnMap |-> colMap,
       groupedByDivision |-> byDivision, groupedByCostType |-> byCostType])))))))))

(***************************************************************************)
(* identifyProjectRedFlags                                                 *)
(***************************************************************************)
\* value.toFixed(1) of a percentage held in hundredths.  A tie of the decimal
\* value is rounded away from zero.
toFixed1(h) ==
  LET tenths == RoundDiv(IF h < 0 THEN -h ELSE h, 10)
  IN  (IF h < 0 THEN <<"-">> ELSE <<>>) \o DigitsOf(tenths \div 10) \o <<".", DigitChar(tenths % 10)>>

\* name.split(' ')[0]
FirstWord(name) ==
  IF \E i \in 1..Len(name) : name[i] = " "
  THEN SubSeq(name, 1, (CHOOSE i \in 1..Len(name) : name[i] = " " /\ \A j \in 1..(i - 1) : name[j] # " ") - 1)
  ELSE name

\* `${value}` of a projectData amount: a formatted string, or the number 0 of
\* the default record.
Interpolate(cell) == KeyString(cell)

\* A check that also fires at exactly -15.
RECURSIVE CostTypeFindingsInclusive(_, _)
CostTypeFindingsInclusive(costTypeData, n) ==
  IF n = 0 THEN <<>>
  ELSE LET costType == costTypeData[n]
           variance == costType.complete - costType.expectedComplete
           before == CostTypeFindingsInclusive(costTypeData, n - 1)
       IN  IF variance <= -1500
           THEN Append(before,
                  [title |-> costType.name \o <<" ","P","r","o","g","r","e","s","s"," ","C","o","n","c","e","r","n">>,
                   description |-> costType.name \o <<" ","o","n","l","y"," ">> \o toFixed1(costType.complete)
                                   \o <<"%"," ","c","o","m","p","l","e","t","e"," ","v","s"," ","e","x","p","e","c","t","e","d"," ">>
                                   \o toFixed1(costType.expectedComplete) \o <<"%">>,
                   type |-> "danger",
                   recommendation |-> <<"E","x","p","e","d","i","t","e"," ">> \o FirstWord(costType.name)
                                      \o <<" ","p","r","o","c","u","r","e","m","e","n","t"," ","a","n","d"," ","a","c","t","i","v","i","t","i","e","s">>])
           ELSE before

\* The findings costTypeData.forEach pushes for the first n entries.
RECURSIVE CostTypeFindings(_, _)
CostTypeFindings(costTypeData, n) ==
  IF n = 0 THEN <<>>
  ELSE LET costType == costTypeData[n]
           variance == costType.complete - costType.expectedComplete
           significantlyBehind == variance < -1500
           before == CostTypeFindings(costTypeData, n - 1)
       IN  IF significantlyBehind
           THEN Append(before,
                  [title |-> costType.name \o <<" ","P","r","o","g","r","e","s","s"," ","C","o","n","c","e","r","n">>,
                   description |-> costType.name \o <<" ","o","n","l","y"," ">> \o toFixed1(costType.complete)
                                   \o <<"%"," ","c","o","m","p","l","e","t","e"," ","v","s"," ","e","x","p","e","c","t","e","d"," ">>
                                   \o toFixed1(costType.expectedComplete) \o <<"%">>,
                   type |-> "danger",
                   recommendation |-> <<"E","x","p","e","d","i","t","e"," ">> \o FirstWord(costType.name)
                                      \o <<" ","p","r","o","c","u","r","e","m","e","n","t"," ","a","n","d"," ","a","c","t","i","v","i","t","i","e","s">>])
           ELSE before

\* The findings divisionData.forEach pushes for the first n entries.
RECURSIVE DivisionFindings(_, _)
DivisionFindings(divisionData, n) ==
  IF n = 0 THEN <<>>
  ELSE LET division == divisionData[n]
           before == DivisionFindings(divisionData, n - 1)
       IN  IF division.variance < -2000
           THEN Append(before,
                  [title |-> division.name \o <<" ","B","e","h","i","n","d"," ","S","c","h","e","d","u","l","e">>,
                   description |-> division.name \o <<" ","o","n","l","y"," ">> \o toFixed1(division.complete)
                                   \o <<"%"," ","c","o","m","p","l","e","t","e"," ","v","s"," ","e","x","p","e","c","t","e","d"," ">>
                                   \o toFixed1(division.expected) \o <<"%">>,
                   type |-> "danger",
                   recommendation |-> <<"P","r","i","o","r","i","t","i","z","e"," ">> \o division.name
                                      \o <<" ","a","c","t","i","v","i","t","i","e","s"," ","t","o"," ","p","r","e","v","e","n","t"," ","c","a","s","c","a","d","i","n","g"," ","d","e","l","a","y","s">>])
           ELSE before

\* A check whose danger threshold is also its warning threshold.
ScheduleFindingsOneThreshold(projectData) ==
  LET scheduleVariance == projectData.percentTimeElapsed - projectData.percentBilled
  IN  IF scheduleVariance > 500
      THEN <<[title |-> <<"S","c","h","e","d","u","l","e"," ","S","t","a","t","u","s">>,
              description |-> <<"P","r","o","j","e","c","t"," ","i","s"," ">> \o toFixed1(scheduleVariance)
                              \o <<"%"," ","b","e","h","i","n","d"," ","s","c","h","e","d","u","l","e"," ","(">> \o toFixed1(projectData.percentTimeElapsed)
                              \o <<"%"," ","t","i","m","e"," ","e","l","a","p","s","e","d"," ","v","s"," ">> \o toFixed1(projectData.percentBilled)
                              \o <<"%"," ","b","u","d","g","e","t"," ","s","p","e","n","t",")">>,
              type |-> IF scheduleVariance > 500 THEN "danger" ELSE "warning",
              recommendation |-> <<"R","e","v","i","e","w"," ","s","c","h","e","d","u","l","e"," ","a","n","d"," ","a","c","c","e","l","e","r","a","t","e"," ","c","r","i","t","i","c","a","l"," ","p","a","t","h"," ","a","c","t","i","v","i","t","i","e","s">>]>>
      ELSE <<>>

\* The schedule variance check.
ScheduleFindings(projectData) ==
  LET scheduleVariance == projectData.percentTimeElapsed - projectData.percentBilled
  IN  IF scheduleVariance > 500
      THEN <<[title |-> <<"S","c","h","e","d","u","l","e"," ","S","t","a","t","u","s">>,
              description |-> <<"P","r","o","j","e","c","t"," ","i","s"," ">> \o toFixed1(scheduleVariance)
                              \o <<"%"," ","b","e","h","i","n","d"," ","s","c","h","e","d","u","l","e"," ","(">> \o toFixed1(projectData.percentTimeElapsed)
                              \o <<"%"," ","t","i","m","e"," ","e","l","a","p","s","e","d"," ","v","s"," ">> \o toFixed1(projectData.percentBilled)
                              \o <<"%"," ","b","u","d","g","e","t"," ","s","p","e","n","t",")">>,
              type |-> IF scheduleVariance > 1000 THEN "danger" ELSE "warning",
              recommendation |-> <<"R","e","v","i","e","w"," ","s","c","h","e","d","u","l","e"," ","a","n","d"," ","a","c","c","e","l","e","r","a","t","e"," ","c","r","i","t","i","c","a","l"," ","p","a","t","h"," ","a","c","t","i","v","i","t","i","e","s">>]>>
      ELSE <<>>

\* A check that calls an overrun of exactly 5 a danger.
BudgetFindingsInclusive(projectData) ==
  IF projectData.percentOverage > 0
  THEN <<[title |-> <<"B","u","d","g","e","t"," ","C","o","n","c","e","r","n","s">>,
          description |-> <<"P","r","o","j","e","c","t","e","d"," ","o","v","e","r","r","u","n"," ","o","f"," ">> \o Interpolate(projectData.projectedOverage)
                          \o <<" ","(">> \o toFixed1(projectData.percentOverage) \o <<"%"," ","o","v","e","r"," ","b","u","d","g","e","t",")">>,
          type |-> IF projectData.percentOverage >= 500 THEN "danger" ELSE "warning",
          recommendation |-> <<"R","e","v","i","e","w"," ","c","o","n","t","i","n","g","e","n","c","y"," ","u","s","a","g","e"," ","a","n","d"," ","i","m","p","l","e","m","e","n","t"," ","c","o","s","t"," ","c","o","n","t","r","o","l","s">>]>>
  ELSE <<>>

\* The budget overrun check.
BudgetFindings(projectData) ==
  IF projectData.percentOverage > 0
  THEN <<[title |-> <<"B","u","d","g","e","t"," ","C","o","n","c","e","r","n","s">>,
          description |-> <<"P","r","o","j","e","c","t","e","d"," ","o","v","e","r","r","u","n"," ","o","f"," ">> \o Interpolate(projectData.projectedOverage)
                          \o <<" ","(">> \o toFixed1(projectData.percentOverage) \o <<"%"," ","o","v","e","r"," ","b","u","d","g","e","t",")">>,
          type |-> IF projectData.percentOverage > 500 THEN "danger" ELSE "warning",
          recommendation |-> <<"R","e","v","i","e","w"," ","c","o","n","t","i","n","g","e","n","c","y"," ","u","s","a","g","e"," ","a","n","d"," ","i","m","p","l","e","m","e","n","t"," ","c","o","s","t"," ","c","o","n","t","r","o","l","s">>]>>
  ELSE <<>>

\* The findings, in the order the four checks push them.
identifyProjectRedFlags(normalizedData) ==
  ScheduleFindings(normalizedData.projectData)
    \o CostTypeFindings(normalizedData.costTypeData, Len(normalizedData.costTypeData))
    \o DivisionFindings(normalizedData.divisionData, Len(normalizedData.divisionData))
    \o BudgetFindings(normalizedData.projectData)

\* What the Key Findings panel of ConstructionDashboard shows: the findings,
\* or its message when there are none.
sNoCriticalIssues == <<"N","o"," ","c","r","i","t","i","c","a","l"," ","i","s","s","u","e","s"," ","d","e","t","e","c","t","e","d"," ","i","n"," ","c","u","r","r","e","n","t"," ","p","r","o","j","e","c","t"," ","d","a","t","a",".">>
KeyFindingsPanel(findings) ==
  IF Len(findings) > 0
  THEN [k \in 1..Len(findings) |-> findings[k].title]
  ELSE <<sNoCriticalIssues>>

\* A projectMeta without values.
NoMeta == [projectName |-> Undef, startDate |-> Undef, endDate |-> Undef, currentDate |-> Undef]

(***************************************************************************)
(* The components.  A component instance is a record of its state hooks    *)
(* and of what the renderer knows of it: whether it is mounted, whether a  *)
(* state update awaits a render (dirty), whether the effect awaits its run *)
(* (effectPending), the view its last render returned, the reads it has    *)
(* started and those still pending.  State updates made in one step are    *)
(* rendered together.  A state that may be null is Null or Some(v).        *)
(***************************************************************************)
Null == [null |-> TRUE]
Some(v) == [null |-> FALSE, v |-> v]

sNoBudgetFile == <<"N","o"," ","b","u","d","g","e","t"," ","f","i","l","e"," ","s","p","e","c","i","f","i","e","d">>
sNoProjectFile == <<"N","o"," ","p","r","o","j","e","c","t"," ","f","i","l","e"," ","s","p","e","c","i","f","i","e","d">>
sFailedToLoad == <<"F","a","i","l","e","d"," ","t","o"," ","l","o","a","d"," ","p","r","o","j","e","c","t"," ","d","a","t","a",":"," ">>
\* err.message of a failed read, and of the reference to an undefined Papa
sReadError == <<"F","i","l","e"," ","n","o","t"," ","f","o","u","n","d">>
sPapaUndefined == <<"P","a","p","a"," ","i","s"," ","n","o","t"," ","d","e","f","i","n","e","d">>

\* normalizedData spread into a new object with keyFindings
WithFindings(normalizedData) ==
  normalizedData @@ [keyFindings |-> identifyProjectRedFlags(normalizedData)]

\* useState's initial values in useProjectData, at the first render
useProjectData ==
  [mounted |-> TRUE, loading |-> TRUE, error |-> Null, projectData |-> Null,
   dirty |-> FALSE, effectPending |-> TRUE, view |-> "loading",
   reads |-> 0, pendingReads |-> 0]

\* No ConfigurableConstructionDashboard is rendered.
NoHook == [useProjectData EXCEPT !.mounted = FALSE, !.effectPending = FALSE, !.view = "none"]

\* The projectMeta object ConfigurableConstructionDashboard builds in its render.
ConfigurableMeta(props, at) ==
  [projectName |-> IF props.projectName.t = "undef"
                   THEN Str(sConstructionProject) ELSE props.projectName,
   startDate |-> props.startDate,
   endDate |-> props.endDate,
   currentDate |-> IF props.currentDate.t = "undef"
                   THEN Str(at.localeDate) ELSE props.currentDate]

\* What ConfigurableConstructionDashboard returns.
HookView(h) ==
  IF h.loading THEN "loading"
  ELSE IF ~h.error.null THEN "error"
  ELSE IF h.projectData.null THEN "empty"
  ELSE "dashboard"

\* loadData of useProjectData up to its await.
HookLoadStart(h, fileGiven) ==
  IF ~fileGiven
  THEN [h EXCEPT !.error = Some(sNoBudgetFile),
                 !.loading = FALSE,
                 !.dirty = @ \/ h.error # Some(sNoBudgetFile) \/ h.loading,
                 !.effectPending = FALSE]
  ELSE [h EXCEPT !.loading = TRUE,
                 !.dirty = @ \/ ~h.loading,
                 !.effectPending = FALSE,
                 !.reads = @ + 1,
                 !.pendingReads = @ + 1]

\* loadData of useProjectData after a read that succeeded: parse, normalize,
\* identify, setProjectData, setLoading(false).
HookLoaded(h, normalizedData) ==
  [h EXCEPT !.projectData = Some(WithFindings(normalizedData)),
            !.loading = FALSE,
            !.dirty = TRUE,
            !.pendingReads = @ - 1]

\* The catch block of useProjectData's loadData.
HookLoadFailed(h, message) ==
  [h EXCEPT !.error = Some(sFailedToLoad \o message),
            !.loading = FALSE,
            !.dirty = @ \/ h.error # Some(sFailedToLoad \o message) \/ h.loading,
            !.pendingReads = @ - 1]

\* useState's initial value of dashboardData.
InitialDashboardData(meta, at) ==
  [projectData |->
     [projectName |-> OrElse(meta.projectName, Str(sConstructionProject)),
      startDate |-> Str(<<>>),
      endDate |-> Str(<<>>),
      currentDate |-> Str(at.localeDate),
      daysElapsed |-> 0,
      totalDuration |-> <<>>,
      percentTimeElapsed |-> 0,
      totalBudget |-> Str(<<"$","0">>),
      totalBilled |-> Str(<<"$","0">>),
      percentBilled |-> 0,
      projectedFinal |-> Str(<<"$","0">>),
      projectedOverage |-> Str(<<"$","0">>),
      percentOverage |-> 0],
   budgetData |-> <<>>,
   timeData |-> <<>>,
   budgetSpentData |-> <<>>,
   costTypeData |-> <<>>,
   divisionData |-> <<>>,
   keyFindings |-> <<>>]

\* ConstructionDashboard at its first render.  fileGiven: the projectFile prop
\* is a path; meta: the projectMeta prop's values; metaFresh: the projectMeta
\* prop is left out, so that every render makes a new default object.
ConstructionDashboard(fileGiven, meta, metaFresh, at) ==
  [mounted |-> TRUE, loading |-> TRUE, error |-> Null,
   dashboardData |-> InitialDashboardData(meta, at),
   dirty |-> FALSE, effectPending |-> TRUE, view |-> "loading",
   reads |-> 0, pendingReads |-> 0,
   fileGiven |-> fileGiven, meta |-> meta, metaFresh |-> metaFresh]

\* No ConstructionDashboard is rendered.
NoDash(at) ==
  [ConstructionDashboard(FALSE, NoMeta, TRUE, at) EXCEPT
     !.mounted = FALSE, !.effectPending = FALSE, !.view = "none"]

\* What ConstructionDashboard returns.
DashView(d) ==
  IF d.loading THEN "loading"
  ELSE IF ~d.error.null THEN "error"
  ELSE "dashboard"

\* loadData of ConstructionDashboard up to its await.
DashLoadStart(d) ==
  IF ~d.fileGiven
  THEN [d EXCEPT !.error = Some(sNoProjectFile),
                 !.loading = FALSE,
                 !.dirty = @ \/ d.error # Some(sNoProjectFile) \/ d.loading,
                 !.effectPending = FALSE]
  ELSE [d EXCEPT !.loading = TRUE,
                 !.dirty = @ \/ ~d.loading,
                 !.effectPending = FALSE,
                 !.reads = @ + 1,
                 !.pendingReads = @ + 1]

\* loadData of ConstructionDashboard after transformBudgetCSV resolved.
DashLoaded(d, normalizedData) ==
  [d EXCEPT !.dashboardData = WithFindings(normalizedData),
            !.loading = FALSE,
            !.dirty = TRUE,
            !.pendingReads = @ - 1]

\* The catch block that leaves loading as it is.
DashLoadFailedKeepsLoading(d, message) ==
  [d EXCEPT !.error = Some(sFailedToLoad \o message),
            !.dirty = @ \/ d.error # Some(sFailedToLoad \o message),
            !.pendingReads = @ - 1]

\* The catch block of ConstructionDashboard's loadData.
DashLoadFailed(d, message) ==
  [d EXCEPT !.error = Some(sFailedToLoad \o message),
            !.loading = FALSE,
            !.dirty = @ \/ d.error # Some(sFailedToLoad \o message) \/ d.loading,
            !.pendingReads = @ - 1]

\* transformBudgetCSV once its read has settled.  papaDefined: the global
\* scope has a Papa; the module imports none.
transformBudgetCSV(readOk, content, meta, at, papaDefined) ==
  IF ~readOk
  THEN [state |-> "rejected", readOk |-> readOk, value |-> Null, message |-> sReadError,
        log |-> <<"Error transforming budget CSV:">>]
  ELSE IF ~papaDefined
  THEN [state |-> "rejected", readOk |-> readOk, value |-> Null, message |-> sPapaUndefined,
        log |-> <<"Error transforming budget CSV:">>]
  ELSE Bind(normalizeBudgetData(ArrayOf(content), meta, at), LAMBDA call :
         [state |-> "resolved", readOk |-> readOk, value |-> Some(call.result),
          message |-> <<>>, log |-> call.console])

\* No call of transformBudgetCSV has been made; one is under way.
NoPromise == [state |-> "none", readOk |-> FALSE, value |-> Null, message |-> <<>>, log |-> <<>>]
PendingPromise == [NoPromise EXCEPT !.state = "pending"]

\* No component tree.
NoEnv == [root |-> "none"]

(***************************************************************************)
(* Inputs of the model                                                     *)
(***************************************************************************)

\* Project metadata: none; all four values; the dates without the current date.
Metas ==
  {NoMeta,
   [projectName |-> Str(<<"T","o","w","e","r">>),
    startDate |-> Str(<<"2","0","2","4","-","0","1","-","0","1">>),
    endDate |-> Str(<<"2","0","2","5","-","1","2","-","3","1">>),
    currentDate |-> Str(<<"2","0","2","5","-","0","3","-","0","9">>)],
   [projectName |-> Undef,
    startDate |-> Str(<<"2","0","2","4","-","0","1","-","0","1">>),
    endDate |-> Str(<<"2","0","2","4","-","0","7","-","0","1">>),
    currentDate |-> Undef]}

\* The time of a call: 15:00 UTC on 9 March 2025.
Clocks ==
  {[now |-> ParseDate(<<"2","0","2","5","-","0","3","-","0","9">>) + 15, localeDate |-> <<"3","/","9","/","2","0","2","5">>]}

\* Header rows: the standard headers in their usual order, and in an order
\* that names the description before the code and the percentage before the
\* billed total.
Layouts ==
  {StandardHeaders,
   <<hDescription, hBudgetCode, hCostType, hCurrentBudget, hPercentBilled,
     hTotalBilled, hProjCost, hOverUnder>>}

\* The cells of a line of the file, in the order of StandardHeaders: cost code,
\* description, cost type, budget, billed, % billed, projected cost, variance.
Lines == <<
  <<Str(<<"0","3","-","3","0","5">>), Str(<<"C","o","n","c","r","e","t","e">>), Str(<<"L">>),
       Num(200), Num(100), Num(50), Num(220), Num(-20)>>,
  <<Str(<<"3","-","1","0","0">>), Str(<<"R","e","b","a","r">>), Str(<<"M">>),
       Num(100), Num(10), Num(10), Num(100), Num(0)>>,
  (* no leading digits, empty cost type, a budget that is no number, cells missing *)
  <<Str(<<"A","-","1">>), Str(<<>>), Str(<<>>), Str(<<"n","/","a">>), Undef, Undef, Undef, Undef>>,
  (* a cost code the parser's dynamic typing turned into a number *)
  <<Num(1000), Str(<<"F","e","e">>), Str(<<"L">>), Num(300), Num(300), Num(100), Num(300), Num(0)>>,
  <<Str(<<"1","6","-","2","0","0">>), Str(<<"W","i","r","i","n","g">>), Str(<<"L","A","B","O","R">>),
       Num(100), Num(0), Num(0), Num(150), Num(-50)>>,
  (* no cost code, a description that starts with a digit, no budget *)
  <<Str(<<>>), Str(<<"9"," ","P","a","i","n","t">>), Str(<<"X">>), Num(0), Num(50), Num(0), Num(0), Num(0)>>,
  (* a credit: a negative budget *)
  <<Str(<<"0","3","-","9","0","0">>), Str(<<"C","r","e","d","i","t">>), Str(<<"M">>),
       Num(-50), Num(0), Num(0), Num(-50), Num(0)>>,
  (* billed 3.125 % of the budget *)
  <<Str(<<"0","1","-","1","0","0">>), Str(<<"S","u","r","v","e","y">>), Str(<<"S","U","B","C","O","N","T","R","A","C","T">>),
       Num(3200), Num(100), Num(3), Num(3200), Num(0)>>
  >>

\* The row the parser makes of a line under a header row.
ParsedRow(hdr, line) ==
  Row(hdr, [i \in 1..Len(hdr) |->
              line[CHOOSE j \in 1..Len(StandardHeaders) : StandardHeaders[j] = hdr[i]]])

\* The rows a caller of normalizeBudgetData may hand over: parsed lines, and null.
Rows(hdr) ==
  {ParsedRow(hdr, line) : line \in {Lines[i] : i \in 1..Len(Lines)}}
    \cup {NullRow}

\* The rows of the top-N runs.
TopRows(hdr) == {ParsedRow(hdr, line) : line \in {Lines[2], Lines[3], Lines[4], Lines[5]}}

\* The percentages of the records handed to identifyProjectRedFlags.
TimeElapsedValues == {2500, 3000, 3001}
BilledValues == {2000, 2001}
OverageValues == {-100, 0, 1, 500, 501}

\* Cost-type entries: exactly 15 behind, more than 15 behind (twice), on time.
CostTypeInputs ==
  {[name |-> sLabor, complete |-> 1500, remaining |-> 8500, expectedComplete |-> 3000],
   [name |-> sLabor, complete |-> 1499, remaining |-> 8501, expectedComplete |-> 3000],
   [name |-> <<"X">>, complete |-> 0, remaining |-> 10000, expectedComplete |-> 3000],
   [name |-> sMaterials, complete |-> 3000, remaining |-> 7000, expectedComplete |-> 3000]}

\* Division entries: exactly 20 behind, and more than 20 behind (twice).
DivisionInputs ==
  {[name |-> <<"D","i","v"," ","3"," ","-"," ","C","o","n","c","r","e","t","e">>, complete |-> 1000, expected |-> 3000, variance |-> -2000],
   [name |-> <<"D","i","v"," ","1","6"," ","-"," ","E","l","e","c","t","r","i","c","a","l">>, complete |-> 999, expected |-> 3000, variance |-> -2001],
   [name |-> sOther, complete |-> 0, expected |-> 3000, variance |-> -3000]}

\* The most rows a normalizer run is given.
MaxRows == 3
\* The most rows a top-N run is given.
MaxTopRows == 6
\* The most entries of costTypeData, and of divisionData, a rule run is given.
MaxEntries == 2

\* The variables the specification at hand leaves alone.
Idle ==
  /\ projectMeta = NoMeta
  /\ clock \in Clocks
  /\ columnMap = NoMap
  /\ groupedByDivision = <<>>
  /\ groupedByCostType = <<>>
  /\ result = EmptyResult(NoMeta, clock)
  /\ console = <<>>
  /\ threw = FALSE
  /\ budgetData = <<>>
  /\ keyFindings = <<>>
  /\ env = NoEnv
  /\ hook = NoHook
  /\ dash = NoDash(clock)
  /\ promise = NoPromise

(***************************************************************************)
(* SpecCols: detectAndMapColumns on a first row whose keys are standard    *)
(* headers in any order.                                                   *)
(***************************************************************************)
ColsInit ==
  /\ pc = "keys"
  /\ header = <<>>
  /\ rawBudgetData = <<Row(<<>>, <<>>)>>
  /\ Idle

\* The parser adds the next header of the file to the first row.
AddKey(h) ==
  /\ pc = "keys"
  /\ \A i \in 1..Len(header) : header[i] # h
  /\ header' = Append(header, h)
  /\ rawBudgetData' = <<Row(header', [i \in 1..Len(header') |-> Undef])>>
  /\ UNCHANGED <<pc, projectMeta, clock, columnMap, groupedByDivision, groupedByCostType,
                 result, console, threw, budgetData, keyFindings, hookState>>

\* const columnMap = detectAndMapColumns(rawBudgetData[0])
Detect ==
  /\ pc = "keys"
  /\ columnMap' = detectAndMapColumns(rawBudgetData[1])
  /\ pc' = "mapped"
  /\ UNCHANGED <<header, rawBudgetData, projectMeta, clock, groupedByDivision,
                 groupedByCostType, result, console, threw, budgetData, keyFindings, hookState>>

ColsNext == (\E h \in HeaderSet : AddKey(h)) \/ Detect

SpecCols == ColsInit /\ [][ColsNext]_vars

(***************************************************************************)
(* SpecNorm: normalizeBudgetData on up to MaxRows rows.                    *)
(***************************************************************************)
NormInit ==
  /\ pc = "input"
  /\ header \in Layouts
  /\ rawBudgetData = <<>>
  /\ projectMeta \in Metas
  /\ clock \in Clocks
  /\ columnMap = NoMap
  /\ groupedByDivision = <<>>
  /\ groupedByCostType = <<>>
  /\ result = EmptyResult(NoMeta, clock)
  /\ console = <<>>
  /\ threw = FALSE
  /\ budgetData = <<>>
  /\ keyFindings = <<>>
  /\ env = NoEnv
  /\ hook = NoHook
  /\ dash = NoDash(clock)
  /\ promise = NoPromise

\* The caller's array gets one more row.
AddRow(row) ==
  /\ pc = "input"
  /\ Len(rawBudgetData) < MaxRows
  /\ rawBudgetData' = Append(rawBudgetData, row)
  /\ UNCHANGED <<pc, header, projectMeta, clock, columnMap, groupedByDivision,
                 groupedByCostType, result, console, threw, budgetData, keyFindings, hookState>>

\* normalizeBudgetData(rawBudgetData, projectMeta)
Normalize ==
  /\ pc = "input"
  /\ \E call \in {normalizeBudgetData(ArrayOf(rawBudgetData), projectMeta, clock)} :
         /\ result' = call.result
         /\ console' = console \o call.console
         /\ threw' = call.threw
         /\ columnMap' = call.columnMap
         /\ groupedByDivision' = call.groupedByDivision
         /\ groupedByCostType' = call.groupedByCostType
  /\ pc' = "done"
  /\ UNCHANGED <<header, rawBudgetData, projectMeta, clock, budgetData, keyFindings, hookState>>

\* normalizeBudgetData(null, projectMeta), normalizeBudgetData(undefined,
\* projectMeta): a call that hands over no array.
NormalizeAbsent(data) ==
  /\ pc = "input"
  /\ rawBudgetData = <<>>
  /\ \E call \in {normalizeBudgetData(data, projectMeta, clock)} :
         /\ result' = call.result
         /\ console' = console \o call.console
         /\ threw' = call.threw
         /\ columnMap' = call.columnMap
         /\ groupedByDivision' = call.groupedByDivision
         /\ groupedByCostType' = call.groupedByCostType
  /\ pc' = "done"
  /\ UNCHANGED <<header, rawBudgetData, projectMeta, clock, budgetData, keyFindings, hookState>>

NormNext ==
  \/ \E row \in Rows(header) : AddRow(row)
  \/ Normalize
  \/ \E data \in AbsentData : NormalizeAbsent(data)

SpecNorm == NormInit /\ [][NormNext]_vars

(***************************************************************************)
(* SpecTop: processTopBudgetItems on up to MaxTopRows rows.                *)
(***************************************************************************)
TopInit ==
  /\ pc = "input"
  /\ header = StandardHeaders
  /\ rawBudgetData = <<>>
  /\ Idle

AddTopRow(row) ==
  /\ pc = "input"
  /\ Len(rawBudgetData) < MaxTopRows
  /\ rawBudgetData' = Append(rawBudgetData, row)
  /\ UNCHANGED <<pc, header, projectMeta, clock, columnMap, groupedByDivision,
                 groupedByCostType, result, console, threw, budgetData, keyFindings, hookState>>

\* processTopBudgetItems(rawBudgetData, columnMap), as normalizeBudgetData calls it
TopItems ==
  /\ pc = "input"
  /\ Len(rawBudgetData) > 0
  /\ columnMap' = detectAndMapColumns(rawBudgetData[1])
  /\ budgetData' = processTopBudgetItems(rawBudgetData, columnMap', TopLimit)
  /\ pc' = "done"
  /\ UNCHANGED <<header, rawBudgetData, projectMeta, clock, groupedByDivision,
                 groupedByCostType, result, console, threw, keyFindings, hookState>>

TopNext == (\E row \in TopRows(header) : AddTopRow(row)) \/ TopItems

SpecTop == TopInit /\ [][TopNext]_vars

(***************************************************************************)
(* SpecFlags: identifyProjectRedFlags on a normalized record with up to    *)
(* MaxEntries cost-type entries and MaxEntries division entries.           *)
(***************************************************************************)
FlagsInit ==
  /\ pc = "input"
  /\ header = <<>>
  /\ rawBudgetData = <<>>
  /\ projectMeta = NoMeta
  /\ clock \in Clocks
  /\ columnMap = NoMap
  /\ groupedByDivision = <<>>
  /\ groupedByCostType = <<>>
  /\ \E pte \in TimeElapsedValues, pb \in BilledValues, po \in OverageValues :
       result = [EmptyResult(NoMeta, clock) EXCEPT
                   !.projectData.percentTimeElapsed = pte,
                   !.projectData.percentBilled = pb,
                   !.projectData.percentOverage = po,
                   !.projectData.projectedOverage = Str(formatCurrency(70))]
  /\ console = <<>>
  /\ threw = FALSE
  /\ budgetData = <<>>
  /\ keyFindings = <<>>
  /\ env = NoEnv
  /\ hook = NoHook
  /\ dash = NoDash(clock)
  /\ promise = NoPromise

\* The record gets one more cost-type entry.
AddCostType(entry) ==
  /\ pc = "input"
  /\ Len(result.costTypeData) < MaxEntries
  /\ result' = [result EXCEPT !.costTypeData = Append(@, entry)]
  /\ UNCHANGED <<pc, header, rawBudgetData, projectMeta, clock, columnMap, groupedByDivision,
                 groupedByCostType, console, threw, budgetData, keyFindings, hookState>>

\* The record gets one more division entry.
AddDivision(entry) ==
  /\ pc = "input"
  /\ Len(result.divisionData) < MaxEntries
  /\ result' = [result EXCEPT !.divisionData = Append(@, entry)]
  /\ UNCHANGED <<pc, header, rawBudgetData, projectMeta, clock, columnMap, groupedByDivision,
                 groupedByCostType, console, threw, budgetData, keyFindings, hookState>>

\* const findings = identifyProjectRedFlags(normalizedData)
Identify ==
  /\ pc = "input"
  /\ keyFindings' = identifyProjectRedFlags(result)
  /\ pc' = "done"
  /\ UNCHANGED <<header, rawBudgetData, projectMeta, clock, columnMap, groupedByDivision,
                 groupedByCostType, result, console, threw, budgetData, hookState>>

FlagsNext ==
  \/ \E entry \in CostTypeInputs : AddCostType(entry)
  \/ \E entry \in DivisionInputs : AddDivision(entry)
  \/ Identify

SpecFlags == FlagsInit /\ [][FlagsNext]_vars

(***************************************************************************)
(* SpecHook: a component tree whose root is ConstructionDashboard (as App  *)
(* renders it: projectMeta is an object the parent makes once) or          *)
(* ConfigurableConstructionDashboard.  The renderer runs the effects of a  *)
(* commit, the child's before the parent's, before it renders again.       *)
(***************************************************************************)
\* What the file holds once parsed: nothing, two lines, a line whose cost
\* code is a number.
FileContents ==
  {<<>>,
   <<ParsedRow(StandardHeaders, Lines[1]), ParsedRow(StandardHeaders, Lines[2])>>,
   <<ParsedRow(StandardHeaders, Lines[4])>>}

\* The project details the root is given.
HookMetas ==
  {NoMeta,
   [projectName |-> Str(<<"T","o","w","e","r">>),
    startDate |-> Str(<<"2","0","2","4","-","0","1","-","0","1">>),
    endDate |-> Str(<<"2","0","2","5","-","1","2","-","3","1">>),
    currentDate |-> Str(<<"2","0","2","5","-","0","3","-","0","9">>)]}

\* The most reads one useProjectData instance starts.
MaxReads == 4

HookInit ==
  /\ pc = "mounted"
  /\ header = StandardHeaders
  /\ rawBudgetData = <<>>
  /\ projectMeta = NoMeta
  /\ clock \in Clocks
  /\ columnMap = NoMap
  /\ groupedByDivision = <<>>
  /\ groupedByCostType = <<>>
  /\ result = EmptyResult(NoMeta, clock)
  /\ console = <<>>
  /\ threw = FALSE
  /\ budgetData = <<>>
  /\ keyFindings = <<>>
  /\ \E root \in {"Dashboard", "Configurable"}, fileGiven \in BOOLEAN, papaDefined \in BOOLEAN,
        content \in FileContents, props \in HookMetas :
       /\ env = [root |-> root, fileGiven |-> fileGiven, papaDefined |-> papaDefined,
                 content |-> content, props |-> props]
       /\ hook = IF root = "Configurable" THEN useProjectData ELSE NoHook
       /\ dash = IF root = "Dashboard"
                 THEN ConstructionDashboard(fileGiven, props, FALSE, clock)
                 ELSE NoDash(clock)
  /\ promise = NoPromise

\* No effect of the last commit awaits its run.
EffectsFlushed == ~hook.effectPending /\ ~dash.effectPending

\* ConfigurableConstructionDashboard renders again: it makes a new projectMeta,
\* so that the effect of useProjectData is due again, and renders, keeps or
\* drops its ConstructionDashboard, to which it hands data and config.
HookRender ==
  /\ hook.mounted /\ hook.dirty
  /\ EffectsFlushed
  /\ hook' = [hook EXCEPT !.dirty = FALSE, !.effectPending = TRUE, !.view = HookView(hook)]
  /\ dash' = IF HookView(hook) # "dashboard" THEN NoDash(clock)
             ELSE IF dash.mounted
             THEN [dash EXCEPT !.dirty = FALSE, !.effectPending = TRUE, !.view = DashView(dash)]
             ELSE ConstructionDashboard(FALSE, NoMeta, TRUE, clock)
  /\ UNCHANGED <<pc, normVars, env, promise>>

\* The effect of useProjectData: loadData up to its await.
HookEffect ==
  /\ hook.mounted /\ hook.effectPending
  /\ ~dash.effectPending
  /\ env.fileGiven => hook.reads < MaxReads
  /\ hook' = HookLoadStart(hook, env.fileGiven)
  /\ UNCHANGED <<pc, normVars, env, dash, promise>>

\* A read of useProjectData settles: loadData runs to its end.
HookReadSettle(readOk) ==
  /\ hook.mounted /\ hook.pendingReads > 0
  /\ IF readOk
     THEN \E call \in {normalizeBudgetData(ArrayOf(env.content), ConfigurableMeta(env.props, clock), clock)} :
            /\ hook' = HookLoaded(hook, call.result)
            /\ console' = console \o call.console
     ELSE /\ hook' = HookLoadFailed(hook, sReadError)
          /\ console' = Append(console, "Error loading project data:")
  /\ UNCHANGED <<pc, header, rawBudgetData, projectMeta, clock, columnMap, groupedByDivision,
                 groupedByCostType, result, threw, budgetData, keyFindings, env, dash, promise>>

\* ConstructionDashboard renders again after a state update of its own.
DashRender ==
  /\ dash.mounted /\ dash.dirty
  /\ ~(hook.mounted /\ hook.dirty)
  /\ EffectsFlushed
  /\ dash' = [dash EXCEPT !.dirty = FALSE,
                          !.effectPending = dash.metaFresh,
                          !.view = DashView(dash)]
  /\ UNCHANGED <<pc, normVars, env, hook, promise>>

\* The effect of ConstructionDashboard: loadData up to the await in
\* transformBudgetCSV.
DashEffect ==
  /\ dash.mounted /\ dash.effectPending
  /\ dash' = DashLoadStart(dash)
  /\ promise' = IF dash.fileGiven THEN PendingPromise ELSE promise
  /\ UNCHANGED <<pc, normVars, env, hook>>

\* The read of transformBudgetCSV settles: the promise settles and loadData
\* runs to its end.
DashReadSettle(readOk) ==
  /\ dash.mounted /\ dash.pendingReads > 0
  /\ \E settled \in {transformBudgetCSV(readOk, env.content, dash.meta, clock, env.papaDefined)} :
         /\ promise' = settled
         /\ IF settled.state = "resolved"
            THEN /\ dash' = DashLoaded(dash, settled.value.v)
                 /\ console' = console \o settled.log
            ELSE /\ dash' = DashLoadFailed(dash, settled.message)
                 /\ console' = console \o settled.log \o <<"Error loading project data:">>
  /\ UNCHANGED <<pc, header, rawBudgetData, projectMeta, clock, columnMap, groupedByDivision,
                 groupedByCostType, result, threw, budgetData, keyFindings, env, hook>>

HookNext ==
  \/ HookRender
  \/ HookEffect
  \/ \E readOk \in BOOLEAN : HookReadSettle(readOk)
  \/ DashRender
  \/ DashEffect
  \/ \E readOk \in BOOLEAN : DashReadSettle(readOk)

SpecHook == HookInit /\ [][HookNext]_vars

\* The renderer runs a due effect, and a read settles.
SpecHookLive ==
  /\ SpecHook
  /\ WF_vars(DashRender)
  /\ WF_vars(DashEffect)
  /\ WF_vars(\E readOk \in BOOLEAN : DashReadSettle(readOk))

(***************************************************************************)
(* Claims                                                                  *)
(***************************************************************************)
\* The column map the standard headers call for.
StandardMap ==
  [costCode |-> hBudgetCode, costCodeDescription |-> hDescription, costType |-> hCostType,
   currentBudget |-> hCurrentBudget, billedToDate |-> hTotalBilled,
   percentBilled |-> hPercentBilled, projectedCost |-> hProjCost, variance |-> hOverUnder]

AllStandardKeys == Len(rawBudgetData[1].keys) = Len(StandardHeaders)

\* C6: for a first row holding the eight standard headers, in every key order,
\* detectAndMapColumns maps each field to its own standard header.
C6_StandardHeadersMapped ==
  (pc = "mapped" /\ AllStandardKeys) => columnMap = StandardMap

\* The record normalizeBudgetData returned carries nothing it computed.
ZeroedDefault ==
  LET p == result.projectData
  IN  /\ p.daysElapsed = 0
      /\ p.percentTimeElapsed = 0
      /\ p.totalBudget = Num(0)
      /\ p.totalBilled = Num(0)
      /\ p.percentBilled = 0
      /\ p.projectedFinal = Num(0)
      /\ p.projectedOverage = Num(0)
      /\ p.percentOverage = 0
      /\ p.totalDuration = <<>>
      /\ result.budgetData = <<>>
      /\ result.timeData = <<>>
      /\ result.budgetSpentData = <<>>
      /\ result.costTypeData = <<>>
      /\ result.divisionData = <<>>

\* C1: when a step of the try block throws on a non-empty input,
\* normalizeBudgetData returns the zeroed default record: no value computed
\* before the failure is in it.
C1_ThrowReturnsZeroedDefault ==
  (pc = "done" /\ Len(rawBudgetData) > 0 /\ threw) => ZeroedDefault

\* The sum of the numeric values of a column over the rows at the given
\* indices, a cell that is no number counting as 0.
RECURSIVE ColumnSum(_, _)
ColumnSum(indices, column) ==
  IF indices = <<>> THEN 0
  ELSE parseFloatOr(Get(rawBudgetData[Head(indices)], column), 0) + ColumnSum(Tail(indices), column)

RECURSIVE GroupsSum(_, _)
GroupsSum(groups, column) ==
  IF groups = <<>> THEN 0
  ELSE ColumnSum(Head(groups).items, column) + GroupsSum(Tail(groups), column)

\* The places (group, position) at which a grouping holds row i.
PlacesOf(groups, i) ==
  {gk \in UNION {{<<g, k>> : k \in 1..Len(groups[g].items)} : g \in 1..Len(groups)} :
     groups[gk[1]].items[gk[2]] = i}

\* Every row of the input has a cost code that is a string (or none).
StringCostCodes ==
  /\ \A i \in 1..Len(rawBudgetData) : ~rawBudgetData[i].null
  /\ LET column == detectAndMapColumns(rawBudgetData[1]).costCode
     IN  \A i \in 1..Len(rawBudgetData) : Get(rawBudgetData[i], column).t \in {"str", "undef"}

\* C7: for a non-empty list of rows with string cost codes, every row is in
\* exactly one division group and exactly one cost-type group (no leading
\* digits: "Other"; no cost type: "Other"), and the group sums of budget and of
\* billed-to-date add up to the project totals.
C7_GroupsPartitionAndConserve ==
  (pc = "done" /\ Len(rawBudgetData) > 0 /\ StringCostCodes) =>
    /\ ~threw
    /\ \A i \in 1..Len(rawBudgetData) :
         /\ Cardinality(PlacesOf(groupedByDivision, i)) = 1
         /\ Cardinality(PlacesOf(groupedByCostType, i)) = 1
         /\ LET code == Get(rawBudgetData[i], columnMap.costCode)
                type == Get(rawBudgetData[i], columnMap.costType)
                d == CHOOSE gk \in PlacesOf(groupedByDivision, i) : TRUE
                c == CHOOSE gk \in PlacesOf(groupedByCostType, i) : TRUE
            IN  /\ (code.s = <<>> \/ code.s[1] \notin Digits) <=> groupedByDivision[d[1]].key = sOther
                /\ (type.t = "undef" \/ type.s = <<>>) => groupedByCostType[c[1]].key = sOther
    /\ \A groups \in {groupedByDivision, groupedByCostType} :
         /\ \A g \in 1..Len(groups) : groups[g].items # <<>>
         /\ Str(formatCurrency(GroupsSum(groups, columnMap.currentBudget))) = result.projectData.totalBudget
         /\ Str(formatCurrency(GroupsSum(groups, columnMap.billedToDate))) = result.projectData.totalBilled

\* Rows of one division share a group, a row without leading digits is in
\* "Other", and the budgets are not all zero.
C7_Witness ==
  /\ pc = "done" /\ ~threw /\ Len(rawBudgetData) = 3
  /\ Len(groupedByDivision) = 2
  /\ \E g \in 1..2 : groupedByDivision[g].key = sOther
  /\ \E g \in 1..Len(groupedByCostType) : groupedByCostType[g].key = sOther
  /\ result.projectData.totalBudget # Str(formatCurrency(0))
  /\ result.projectData.totalBilled # Str(formatCurrency(0))

\* The budgets processTopBudgetItems reads from the rows.
Budgets ==
  [i \in 1..Len(rawBudgetData) |->
     parseFloatOr(Get(rawBudgetData[i], columnMap.currentBudget), 0)]

\* The ranking of the rows: row i comes before row j when its budget is larger,
\* or the same and i is earlier in the input.  Ranking[k] is the row at place k.
Ranking ==
  LET b == Budgets
      n == Len(rawBudgetData)
      ahead == [i \in 1..n |-> Cardinality({j \in 1..n : b[j] > b[i] \/ (b[j] = b[i] /\ j < i)})]
  IN  [k \in 1..n |-> CHOOSE i \in 1..n : ahead[i] = k - 1]

\* C8: budgetData has min(5, number of rows) items in non-increasing order of
\* budget, each of a distinct input row; no row left out has a larger budget
\* than an item; rows of equal budget keep their input order.
C8_TopItemsRanked ==
  pc = "done" =>
    LET n == Len(rawBudgetData)
        m == Len(budgetData)
        b == Budgets
        ranked == Ranking
        chosen == {ranked[k] : k \in 1..m}
    IN  /\ m = IF n < 5 THEN n ELSE 5
        /\ Cardinality(chosen) = m
        /\ \A k \in 1..m : budgetData[k] = BudgetItem(rawBudgetData[ranked[k]], columnMap)
        /\ \A k \in 1..(m - 1) : budgetData[k].budget >= budgetData[k + 1].budget
        /\ \A i \in (1..n) \ chosen : \A k \in 1..m : b[i] <= budgetData[k].budget
        /\ \A k \in 1..m : \A l \in (k + 1)..m :
             budgetData[k].budget = budgetData[l].budget => ranked[k] < ranked[l]

\* Six rows, five items, two items of equal budget and different names, and a
\* row left out.
C8_Witness ==
  /\ pc = "done" /\ Len(rawBudgetData) = 6 /\ Len(budgetData) = 5
  /\ \E k \in 1..4 : /\ budgetData[k].budget = budgetData[k + 1].budget
                     /\ budgetData[k].name # budgetData[k + 1].name
  /\ budgetData[1].budget > budgetData[5].budget

\* The title ends with the suffix.
EndsWith(title, suffix) ==
  /\ Len(title) >= Len(suffix)
  /\ SubSeq(title, Len(title) - Len(suffix) + 1, Len(title)) = suffix

TitlesOf(findings) == [k \in 1..Len(findings) |-> findings[k].title]

\* C9: there is a "Schedule Status" finding exactly when percentTimeElapsed -
\* percentBilled > 5; there is at most one, it is the first finding, and it is
\* "danger" when the difference is > 10 and "warning" otherwise.
C9_ScheduleRule ==
  pc = "done" =>
    LET difference == result.projectData.percentTimeElapsed - result.projectData.percentBilled
        places == {k \in 1..Len(keyFindings) : keyFindings[k].title = <<"S","c","h","e","d","u","l","e"," ","S","t","a","t","u","s">>}
    IN  /\ (places # {}) <=> (difference > 500)
        /\ places \subseteq {1}
        /\ places # {} =>
             keyFindings[1].type = IF difference > 1000 THEN "danger" ELSE "warning"

\* A difference of exactly 10 gives a warning, ahead of other findings.
C9_Witness ==
  /\ pc = "done"
  /\ result.projectData.percentTimeElapsed - result.projectData.percentBilled = 1000
  /\ Len(keyFindings) > 1
  /\ keyFindings[1].title = <<"S","c","h","e","d","u","l","e"," ","S","t","a","t","u","s">>
  /\ keyFindings[1].type = "warning"

\* C10: the findings other than the schedule and budget findings are, in this
\* order: one "<name> Progress Concern" for each cost-type entry with complete
\* - expectedComplete < -15, in the order of costTypeData, then one "<name>
\* Behind Schedule" for each division entry with variance < -20, in the order
\* of divisionData; all of type "danger".
C10_GroupRules ==
  pc = "done" =>
    LET Group(f) == f.title \notin {<<"S","c","h","e","d","u","l","e"," ","S","t","a","t","u","s">>, <<"B","u","d","g","e","t"," ","C","o","n","c","e","r","n","s">>}
        Behind(e) == e.complete - e.expectedComplete < -1500
        Late(e) == e.variance < -2000
        group == SelectSeq(keyFindings, Group)
        behind == SelectSeq(result.costTypeData, Behind)
        late == SelectSeq(result.divisionData, Late)
    IN  /\ TitlesOf(group) =
             [k \in 1..Len(behind) |-> behind[k].name \o <<" ","P","r","o","g","r","e","s","s"," ","C","o","n","c","e","r","n">>]
               \o [k \in 1..Len(late) |-> late[k].name \o <<" ","B","e","h","i","n","d"," ","S","c","h","e","d","u","l","e">>]
        /\ \A k \in 1..Len(group) : group[k].type = "danger"

\* Entries at exactly -15 and exactly -20 give no finding, beside entries that
\* give one of each kind.
C10_Witness ==
  /\ pc = "done"
  /\ \E k \in 1..Len(result.costTypeData) :
       result.costTypeData[k].complete - result.costTypeData[k].expectedComplete = -1500
  /\ \E k \in 1..Len(result.divisionData) : result.divisionData[k].variance = -2000
  /\ \E k \in 1..Len(keyFindings) : EndsWith(keyFindings[k].title, <<" ","P","r","o","g","r","e","s","s"," ","C","o","n","c","e","r","n">>)
  /\ \E k \in 1..Len(keyFindings) : EndsWith(keyFindings[k].title, <<" ","B","e","h","i","n","d"," ","S","c","h","e","d","u","l","e">>)

\* C2: while the budget file and the project details stay the same, the
\* useProjectData of a ConfigurableConstructionDashboard starts at most one read.
C2_ReadsOnce == hook.mounted => hook.reads <= 1

\* C3: once useProjectData has finished successfully and
\* ConfigurableConstructionDashboard has rendered its ConstructionDashboard,
\* that component, when its own load attempt is over and rendered, shows the
\* dashboard view with the loaded data.
C3_LoadedDataShown ==
  (/\ hook.mounted /\ ~hook.loading /\ hook.error.null /\ ~hook.projectData.null
   /\ hook.view = "dashboard"
   /\ dash.mounted /\ ~dash.dirty /\ ~dash.effectPending /\ dash.pendingReads = 0)
    => /\ dash.view = "dashboard"
       /\ dash.dashboardData = hook.projectData.v

\* C4: when the read of transformBudgetCSV has succeeded, its promise resolves
\* to normalizeBudgetData(rows, projectMeta): it is not rejected.
C4_ResolvesToNormalized ==
  (promise.state \in {"resolved", "rejected"} /\ promise.readOk)
    => /\ promise.state = "resolved"
       /\ promise.value = Some(normalizeBudgetData(ArrayOf(env.content), dash.meta, clock).result)

\* C5: in ConstructionDashboard, (a) an effect run without projectFile sets
\* error to "No project file specified" and loading to false and starts no
\* read; when the read settles, loading becomes false and either (b) the
\* promise is rejected, error is "Failed to load project data: <message>" and
\* dashboardData is its initial value, or (c) the promise is resolved, error is
\* null and dashboardData is the normalized record with keyFindings; a rendered
\* component shows the loading view while loading, else the error view if
\* error is set, else the dashboard; and a load attempt under way leads to
\* loading = false.
C5_LoadOutcomes ==
  /\ [][(dash.mounted /\ dash.effectPending /\ ~dash'.effectPending /\ ~dash.fileGiven)
          => /\ dash'.error = Some(sNoProjectFile)
             /\ ~dash'.loading
             /\ dash'.reads = dash.reads
             /\ dash'.pendingReads = dash.pendingReads]_vars
  /\ [][(dash.mounted /\ dash'.pendingReads < dash.pendingReads)
          => /\ ~dash'.loading
             /\ \/ /\ promise'.state = "rejected"
                   /\ dash'.error = Some(sFailedToLoad \o promise'.message)
                   /\ dash'.dashboardData = InitialDashboardData(dash.meta, clock)
                \/ /\ promise'.state = "resolved"
                   /\ dash'.error = Null
                   /\ dash'.dashboardData =
                        promise'.value.v @@ [keyFindings |-> dash'.dashboardData.keyFindings]
                   /\ dash'.dashboardData.keyFindings = identifyProjectRedFlags(promise'.value.v)]_vars
  /\ [](dash.mounted /\ ~dash.dirty =>
          dash.view = IF dash.loading THEN "loading"
                      ELSE IF dash.error # Null THEN "error" ELSE "dashboard")
  /\ (dash.mounted /\ (dash.effectPending \/ dash.pendingReads > 0)) ~> ~dash.loading

\* A load that succeeded: the dashboard is shown with findings.
C5_Witness ==
  /\ env.root = "Dashboard"
  /\ dash.mounted /\ ~dash.dirty
  /\ promise.state = "resolved"
  /\ dash.view = "dashboard"
  /\ dash.dashboardData.keyFindings # <<>>

\* C11: there is a "Budget Concerns" finding exactly when percentOverage > 0;
\* there is at most one, it is the last finding, and it is "danger" when
\* percentOverage > 5 and "warning" otherwise.  The findings are empty, and the
\* panel shows its message, exactly when none of the four conditions holds.
C11_BudgetRuleAndEmptiness ==
  pc = "done" =>
    LET p == result.projectData
        n == Len(keyFindings)
        places == {k \in 1..n : keyFindings[k].title = <<"B","u","d","g","e","t"," ","C","o","n","c","e","r","n","s">>}
        schedule == p.percentTimeElapsed - p.percentBilled > 500
        costType == \E k \in 1..Len(result.costTypeData) :
                      result.costTypeData[k].complete - result.costTypeData[k].expectedComplete < -1500
        division == \E k \in 1..Len(result.divisionData) : result.divisionData[k].variance < -2000
        budget == p.percentOverage > 0
    IN  /\ (places # {}) <=> budget
        /\ places \subseteq {n}
        /\ places # {} => keyFindings[n].type = IF p.percentOverage > 500 THEN "danger" ELSE "warning"
        /\ (keyFindings = <<>>) <=> ~(schedule \/ costType \/ division \/ budget)
        /\ (KeyFindingsPanel(keyFindings) = <<sNoCriticalIssues>>)
             <=> ~(schedule \/ costType \/ division \/ budget)

\* An overrun of exactly 5 gives a warning, after other findings.
C11_Witness ==
  /\ pc = "done"
  /\ result.projectData.percentOverage = 500
  /\ Len(keyFindings) > 1
  /\ keyFindings[Len(keyFindings)].title = <<"B","u","d","g","e","t"," ","C","o","n","c","e","r","n","s">>
  /\ keyFindings[Len(keyFindings)].type = "warning"

\* The division the number at the start of a cost code names ("03-305" and
\* "3-100": "Div 3"), or "Other" for a cost code that starts with no digit.
NamedDivision(code) ==
  IF LeadingDigits(code) # <<>>
  THEN sDiv \o NumberToString(DigitsValue(LeadingDigits(code)))
  ELSE sOther

\* C12: a row whose cost code starts with digits is grouped under the division
\* of that number ("03-305" under "Div 3", labelled "Div 3 - Concrete" in
\* divisionData, and in one group with "3-100"); a cost code with no leading
\* digit is grouped under "Other".
C12_DivisionOfCostCode ==
  (pc = "done" /\ Len(rawBudgetData) > 0 /\ StringCostCodes) =>
    /\ \A i \in 1..Len(rawBudgetData) :
         \A gk \in PlacesOf(groupedByDivision, i) :
           groupedByDivision[gk[1]].key =
             NamedDivision(OrElse(Get(rawBudgetData[i], columnMap.costCode), Str(<<>>)).s)
    /\ \A i, j \in 1..Len(rawBudgetData) :
         ( /\ Get(rawBudgetData[i], columnMap.costCode) = Str(<<"0","3","-","3","0","5">>)
           /\ Get(rawBudgetData[j], columnMap.costCode) = Str(<<"3","-","1","0","0">>) )
         => /\ \E g \in 1..Len(groupedByDivision) :
                 /\ groupedByDivision[g].key = <<"D","i","v"," ","3">>
                 /\ \A k \in {i, j} : \E at \in 1..Len(groupedByDivision[g].items) :
                      groupedByDivision[g].items[at] = k
            /\ \E k \in 1..Len(result.divisionData) :
                 result.divisionData[k].name = <<"D","i","v"," ","3"," ","-"," ","C","o","n","c","r","e","t","e">>

\* C13: for a rawBudgetData that is null, undefined or an empty array,
\* normalizeBudgetData returns without throwing; the record has the name and
\* dates of projectMeta (or "Construction Project", "", "", today), numeric
\* fields that are all 0 and five empty arrays, whether or not start and end
\* dates were given; identifyProjectRedFlags of that record is empty.
C13_EmptyInput ==
  (pc = "done" /\ rawBudgetData = <<>>) =>
    LET p == result.projectData
        Given(field, default) == IF Truthy(field) THEN field ELSE Str(default)
    IN  /\ ~threw
        /\ \A data \in AbsentData \cup {ArrayOf(<<>>)} :
             /\ normalizeBudgetData(data, projectMeta, clock).result = result
             /\ ~normalizeBudgetData(data, projectMeta, clock).threw
        /\ p.projectName = Given(projectMeta.projectName, <<"C","o","n","s","t","r","u","c","t","i","o","n"," ","P","r","o","j","e","c","t">>)
        /\ p.startDate = Given(projectMeta.startDate, <<>>)
        /\ p.endDate = Given(projectMeta.endDate, <<>>)
        /\ p.currentDate = Given(projectMeta.currentDate, clock.localeDate)
        /\ p.daysElapsed = 0 /\ p.percentTimeElapsed = 0
        /\ p.totalBudget = Num(0) /\ p.totalBilled = Num(0) /\ p.percentBilled = 0
        /\ p.projectedFinal = Num(0) /\ p.projectedOverage = Num(0) /\ p.percentOverage = 0
        /\ result.budgetData = <<>> /\ result.timeData = <<>>
        /\ result.budgetSpentData = <<>> /\ result.costTypeData = <<>>
        /\ result.divisionData = <<>>
        /\ identifyProjectRedFlags(result) = <<>>

\* A call without rows and with start and end dates has returned.
C13_Witness ==
  /\ pc = "done" /\ rawBudgetData = <<>>
  /\ Truthy(projectMeta.startDate) /\ Truthy(projectMeta.endDate)
  /\ ~Truthy(projectMeta.projectName)
  /\ console = <<"No budget data provided">>
  /\ result.projectData.projectName = Str(<<"C","o","n","s","t","r","u","c","t","i","o","n"," ","P","r","o","j","e","c","t">>)

\* The numeric value of a cell, 0 for a cell that is missing or no number.
NumericValue(cell) == IF parseFloat(cell).nan THEN 0 ELSE parseFloat(cell).v

\* The sum of the numeric values of a column over all rows of the input.
RECURSIVE TotalOf(_, _)
TotalOf(column, n) ==
  IF n = 0 THEN 0
  ELSE TotalOf(column, n - 1) + NumericValue(Get(rawBudgetData[n], column))

FundedCostTypes ==
  SelectSeq(groupedByCostType, LAMBDA g : ColumnSum(g.items, columnMap.currentBudget) > 0)

\* The label of a cost type: that of L, M, S, O, LABOR, MATERIAL, SUBCONTRACT,
\* OTHER, or the cost type itself.
LabelOf(costType) ==
  IF costType \in {<<"L">>, <<"L","A","B","O","R">>} THEN <<"L","a","b","o","r"," ","(","L",")">>
  ELSE IF costType \in {<<"M">>, <<"M","A","T","E","R","I","A","L">>} THEN <<"M","a","t","e","r","i","a","l","s"," ","(","M",")">>
  ELSE IF costType \in {<<"S">>, <<"S","U","B","C","O","N","T","R","A","C","T">>} THEN <<"S","u","b","c","o","n","t","r","a","c","t","s"," ","(","S",")">>
  ELSE IF costType \in {<<"O">>, <<"O","T","H","E","R">>} THEN <<"O","t","h","e","r"," ","(","O",")">>
  ELSE costType

\* The entries of costTypeData are those of the funded cost-type groups, one
\* each: the label, complete (with two decimals) and expectedComplete.
CostTypeEntriesMatch ==
  /\ Len(result.costTypeData) = Len(FundedCostTypes)
  /\ \A k \in 1..Len(result.costTypeData) :
       LET entry == result.costTypeData[k]
           group == FundedCostTypes[k]
       IN  /\ entry.name = LabelOf(group.key)
           /\ entry.complete = RoundDiv(ColumnSum(group.items, columnMap.billedToDate) * 10000,
                                         ColumnSum(group.items, columnMap.currentBudget))
           /\ entry.expectedComplete = result.projectData.percentTimeElapsed

\* C15: costTypeData has exactly one entry for each cost-type group whose
\* budget sum is > 0 and none for a group whose budget sum is <= 0; of each
\* entry, complete is group billed / group budget * 100, complete + remaining
\* is 100, expectedComplete is projectData.percentTimeElapsed, and the name is
\* the label of L, M, S, O, LABOR, MATERIAL, SUBCONTRACT, OTHER or else the raw
\* cost type.
C15_CostTypeEntries ==
  (pc = "done" /\ Len(rawBudgetData) > 0 /\ ~threw) =>
    /\ CostTypeEntriesMatch
    /\ \A k \in 1..Len(result.costTypeData) :
         result.costTypeData[k].complete + result.costTypeData[k].remaining = 10000

====
